---- MODULE Spec2Model ----
(***************************************************************************)
(* A model of the UDS index core (index.c): the zones, their request       *)
(* queues, the request pipeline (search_index_zone, remove_from_index_zone),*)
(* the chapter close protocol (open_next_chapter, start_closing_chapter,    *)
(* announce_chapter_closed) and the chapter writer thread (close_chapters). *)
(*                                                                         *)
(* Threads are interleaved at the granularity of the writer mutex: a zone   *)
(* thread runs from one lock region to the next in one step.                *)
(***************************************************************************)
EXTENDS Integers, Sequences, FiniteSets, TLC

\* ------------------------------------------------------------------ bounds

\* The largest number of zones an index is configured with.
MaxZones == 2
\* The largest per-zone open chapter capacity (records_per_chapter / zone_count).
MaxCapacity == 2
\* geometry->chapters_per_volume of the indexes explored.
ChaptersPerVolume == 3
\* The number of distinct record names.
NameCount == 2
\* The number of distinct record names of the runs that post chapters again.
MaxNames == 4
\* The number of requests such a run submits after its chapters are posted.
MaxAfter == 2
\* The number of deletions it submits while it posts its chapters.
MaxDeletes == 1
\* The number of data requests a run of mixed requests submits.
MaxRequests == 3
\* The number of requests a run of posts, or of posts and then queries, submits.
MaxPosts == 4
\* The largest number of chapters a loaded index starts with.
MaxLoaded == 2
\* The number of posts of the caller of the runs with fair threads.
MaxLivePosts == 3
\* The number of data requests the caller has in flight at once.
MaxOutstanding == 2

\* ------------------------------------------------------- program constants

\* U64_MAX, the "no chapter" answer of the volume index and of triage.
NoChapter == -1
\* A NULL slot of the chapter writer's chapters[] array.
NullChapter == -1

UDS_SUCCESS == "UDS_SUCCESS"
UDS_QUEUED == "UDS_QUEUED"
UDS_OVERFLOW == "UDS_OVERFLOW"
\* Any error of the storage layer (a failed chapter write, a failed page read).
EIO == "EIO"

UDS_MESSAGE_NONE == "UDS_MESSAGE_NONE"
UDS_MESSAGE_SPARSE_CACHE_BARRIER == "UDS_MESSAGE_SPARSE_CACHE_BARRIER"
UDS_MESSAGE_ANNOUNCE_CHAPTER_CLOSED == "UDS_MESSAGE_ANNOUNCE_CHAPTER_CLOSED"

UDS_POST == "UDS_POST"
UDS_UPDATE == "UDS_UPDATE"
UDS_QUERY == "UDS_QUERY"
UDS_QUERY_NO_UPDATE == "UDS_QUERY_NO_UPDATE"
UDS_DELETE == "UDS_DELETE"
STAGE_TRIAGE == "STAGE_TRIAGE"
STAGE_INDEX == "STAGE_INDEX"
RequestTypes == {UDS_POST, UDS_UPDATE, UDS_QUERY, UDS_QUERY_NO_UPDATE, UDS_DELETE}

UDS_LOCATION_UNKNOWN == "UDS_LOCATION_UNKNOWN"
UDS_LOCATION_UNAVAILABLE == "UDS_LOCATION_UNAVAILABLE"
UDS_LOCATION_RECORD_PAGE_LOOKUP == "UDS_LOCATION_RECORD_PAGE_LOOKUP"
UDS_LOCATION_IN_OPEN_CHAPTER == "UDS_LOCATION_IN_OPEN_CHAPTER"
UDS_LOCATION_IN_DENSE == "UDS_LOCATION_IN_DENSE"
UDS_LOCATION_IN_SPARSE == "UDS_LOCATION_IN_SPARSE"

Names == 1..NameCount
\* The names of the runs that post whole chapters and post them again.
AllNames == 1..MaxNames

\* -------------------------------------------------------------------- state

VARIABLES
    zone_count,     \* index->zone_count
    geometry,       \* index->volume->geometry
    zones,          \* index->zones[z]: the chapter counters and which buffer is open
    chapters,       \* the two open_chapter_zone buffers of each zone
    zone_queues,    \* index->zone_queues[z]: the requests waiting for zone z
    zone_pc,        \* where each zone thread is inside execute_zone_request
    zone_request,   \* the request each zone thread holds while closing a chapter
    writer,         \* index->chapter_writer and the position of its thread
    index,          \* the index-wide chapter counters and save flags
    volume_index,   \* the volume index: name -> chapter, and each zone's open chapter
    volume,         \* the chapters on storage, by physical chapter
    sparse_cache,   \* the chapters whose index is in the sparse cache
    parked,         \* requests attached to a pending page read
    workload,       \* what the caller submits: the kind of run and what it has posted
    submitted,      \* the number of data requests submitted so far
    callbacks,      \* per request id: how often index->callback was given it
    last_callback,  \* the request index->callback was given last
    announcements,  \* the ANNOUNCE_CHAPTER_CLOSED messages launched, in order
    forgotten,      \* the forget_chapter calls made, in order
    committed,      \* the chapters the writer has committed, in order
    overflowed,     \* the names whose volume index update overflowed
    overflows,      \* the number of updates the volume index answered with UDS_OVERFLOW
    delta_zone,     \* a struct delta_zone: its coding constants, lists and memory
    delta_entry,    \* the struct delta_index_entry the last delta index call left
    delta_op,       \* the delta index call made last, with its arguments and result
    delta_page,     \* a chapter index page: its bytes and the delta_index_page read from it
    delta_index,    \* a struct delta_index of several zones, and what its caller does
    delta_save,     \* the streams a delta index was saved to, and what restoring them gave
    page_cache,     \* volume->page_cache: its pages, its read queue and the reader threads
    layout,         \* index->layout: the volume and the saved index state on storage
    uds_index       \* the struct uds_index of a session that makes, saves and frees it

vars == <<zone_count, geometry, zones, chapters, zone_queues, zone_pc, zone_request,
          writer, index, volume_index, volume, sparse_cache, parked, workload,
          submitted, callbacks, last_callback, announcements, forgotten, committed, overflowed, overflows,
          delta_zone, delta_entry, delta_op, delta_page, delta_index, delta_save,
          page_cache, layout, uds_index>>

\* The state of the delta index, which the index core above never touches
\* directly (it reaches it through the volume index and the chapter index).
delta_vars == <<delta_zone, delta_entry, delta_op>>

\* The state of the parts that have a specification of their own: the pages
\* of the delta index, and its saving and restoring.
page_vars == <<delta_page>>
save_vars == <<delta_index, delta_save>>
cache_vars == <<page_cache>>
layout_vars == <<layout, uds_index>>
more_vars == <<cache_vars, layout_vars>>
rest_vars == <<page_vars, save_vars, more_vars>>

\* No chapter index page.
NoPage == delta_page = <<>>

\* No delta index of several zones.
NoSave == delta_index = <<>> /\ delta_save = <<>>

\* No page cache and no index layout on storage.
NoCache == page_cache = <<>>

NoLayout == layout = <<>> /\ uds_index = <<>>

NoMore == NoCache /\ NoLayout

\* None of the parts that have a specification of their own.
NoRest == NoPage /\ NoSave /\ NoMore

\* The state of the index core.
index_vars == <<zone_count, geometry, zones, chapters, zone_queues, zone_pc, zone_request,
                writer, index, volume_index, volume, sparse_cache, parked, workload,
                submitted, callbacks, last_callback, announcements, forgotten, committed,
                overflowed, overflows>>

Zones == 0..(zone_count - 1)

\* ------------------------------------------------------------- requests

\* A fresh data request as the caller hands it to enqueue_request.
DataRequest(id, type, name) ==
    [id |-> id, type |-> type, record_name |-> name,
     zone_message |-> UDS_MESSAGE_NONE, message_chapter |-> NoChapter,
     requeued |-> FALSE, status |-> UDS_SUCCESS, found |-> FALSE,
     location |-> UDS_LOCATION_UNKNOWN, virtual_chapter |-> NoChapter,
     new_metadata |-> 0, old_metadata |-> 0]

\* The request with the record data the caller gives it: a payload of its own
\* where the run follows the records' data, and the same for all otherwise.
CallerRequest(id, type, name) ==
    [DataRequest(id, type, name) EXCEPT
        !.new_metadata = IF workload.mode = "post_delete_any" THEN id ELSE 0]

\* launch_zone_message: a request that carries only a zone message.
ZoneMessage(type, virtual_chapter) ==
    [id |-> 0, type |-> UDS_MESSAGE_NONE, record_name |-> 0,
     zone_message |-> type, message_chapter |-> virtual_chapter,
     requeued |-> FALSE, status |-> UDS_SUCCESS, found |-> FALSE,
     location |-> UDS_LOCATION_UNKNOWN, virtual_chapter |-> NoChapter,
     new_metadata |-> 0, old_metadata |-> 0]

\* The value of zone_request[z] while zone z holds no request.
NoRequest == ZoneMessage(UDS_MESSAGE_NONE, NoChapter)

\* set_request_location
set_request_location(request, new_location) ==
    [request EXCEPT !.location = new_location,
                    !.found = new_location \in {UDS_LOCATION_IN_OPEN_CHAPTER,
                                                UDS_LOCATION_IN_DENSE,
                                                UDS_LOCATION_IN_SPARSE}]

\* ------------------------------------------------------------- geometry

is_sparse_geometry(g) == g.sparse_chapters_per_volume > 0

dense_chapters_per_volume(g) == g.chapters_per_volume - g.sparse_chapters_per_volume

is_chapter_sparse(g, oldest_virtual_chapter, newest_virtual_chapter, virtual_chapter) ==
    /\ is_sparse_geometry(g)
    /\ virtual_chapter + dense_chapters_per_volume(g) <= newest_virtual_chapter

\* The number of chapters that expire when newest_chapter becomes the open chapter.
chapters_to_expire(g, newest_chapter) ==
    IF newest_chapter < g.chapters_per_volume THEN 0 ELSE 1

map_to_physical_chapter(g, virtual_chapter) == virtual_chapter % g.chapters_per_volume

\* get_volume_index_zone: the zone that owns a name.
get_volume_index_zone(name) == name % zone_count

\* is_volume_index_sample: whether a name is a sparse sample (a hook).
is_volume_index_sample(name) == name % 3 = 1

is_zone_chapter_sparse(z, virtual_chapter) ==
    is_chapter_sparse(geometry, zones[z].oldest_virtual_chapter,
                      zones[z].newest_virtual_chapter, virtual_chapter)

\* --------------------------------------------------------- open chapter

\* make_open_chapter / reset_open_chapter: an empty open chapter.
\* metadata: the data of the records, as pairs of name and data.
EmptyChapter == [size |-> 0, records |-> {}, deleted |-> {}, metadata |-> {}]

reset_open_chapter(chapter) == EmptyChapter

search_open_chapter(chapter, name) == name \in chapter.records

\* The record data a search for the request's name copies to
\* request->old_metadata when it finds the name among the records searched.
with_old_metadata(request, metadata) ==
    IF \E r \in metadata : r[1] = request.record_name
    THEN [request EXCEPT !.old_metadata =
             (CHOOSE r \in metadata : r[1] = request.record_name)[2]]
    ELSE request

\* The records' data after the data of a name is set.
set_record_data(metadata, name, data) ==
    {r \in metadata : r[1] # name} \cup {<<name, data>>}

\* put_open_chapter: the chapter after the put. A full chapter takes nothing;
\* a name already there (deleted or not) reuses its record, and the record
\* takes the data given.
put_open_chapter(chapter, name, metadata, capacity) ==
    IF chapter.size >= capacity THEN chapter
    ELSE IF name \in chapter.records
         THEN [chapter EXCEPT !.metadata = set_record_data(@, name, metadata)]
    ELSE IF name \in chapter.deleted
         THEN [chapter EXCEPT !.records = @ \cup {name}, !.deleted = @ \ {name},
                              !.metadata = set_record_data(@, name, metadata)]
    ELSE [chapter EXCEPT !.size = @ + 1, !.records = @ \cup {name},
                         !.metadata = set_record_data(@, name, metadata)]

\* The value put_open_chapter returns: the space remaining.
put_open_chapter_remaining(chapter, name, capacity) ==
    IF chapter.size >= capacity THEN 0
    ELSE capacity - put_open_chapter(chapter, name, 0, capacity).size

remove_from_open_chapter(chapter, name) ==
    IF name \in chapter.records
    THEN [chapter EXCEPT !.records = @ \ {name}, !.deleted = @ \cup {name},
                         !.metadata = {r \in @ : r[1] # name}]
    ELSE chapter

\* The open and the writing chapter of a zone.
open_chapter(z) == chapters[z][zones[z].open]
writing_chapter(z) == chapters[z][1 - zones[z].open]

\* --------------------------------------------------------- volume index

\* The oldest chapter the volume index still answers for a name of zone z:
\* samples of a sparse index are kept for the whole volume, everything else
\* for the dense chapters only.
volume_index_low(vi, z, name) ==
    LET count == IF is_sparse_geometry(geometry) /\ ~is_volume_index_sample(name)
                 THEN dense_chapters_per_volume(geometry)
                 ELSE geometry.chapters_per_volume
        open == vi.open_chapter[z]
    IN IF open >= count THEN open - count + 1 ELSE 0

\* get_volume_index_record: the record of a name (is_found, virtual_chapter).
get_volume_index_record(vi, name) ==
    LET z == get_volume_index_zone(name)
        chapter == vi.chapter[name]
    IN IF chapter # NoChapter /\ chapter >= volume_index_low(vi, z, name)
       THEN [is_found |-> TRUE, is_collision |-> FALSE, virtual_chapter |-> chapter]
       ELSE [is_found |-> FALSE, is_collision |-> FALSE, virtual_chapter |-> NoChapter]

\* lookup_volume_index_name
lookup_volume_index_name(vi, name) == get_volume_index_record(vi, name).virtual_chapter

\* put_volume_index_record and set_volume_index_record_chapter
put_volume_index_record(vi, name, chapter) == [vi EXCEPT !.chapter[name] = chapter]

\* remove_volume_index_record
remove_volume_index_record(vi, name) == [vi EXCEPT !.chapter[name] = NoChapter]

\* set_volume_index_zone_open_chapter
set_volume_index_zone_open_chapter(vi, z, chapter) == [vi EXCEPT !.open_chapter[z] = chapter]

\* --------------------------------------------------------------- volume

\* search_volume_page_cache on a cached page: is the name in the chapter that
\* the physical chapter of virtual_chapter holds?
search_volume(vol, virtual_chapter, name) ==
    name \in vol[map_to_physical_chapter(geometry, virtual_chapter)].records

\* close_open_chapter: the volume after the chapters of all zones are written
\* as virtual_chapter.
close_open_chapter(vol, chapter_zones, virtual_chapter) ==
    [vol EXCEPT ![map_to_physical_chapter(geometry, virtual_chapter)] =
        [virtual_chapter |-> virtual_chapter,
         records |-> UNION {chapter_zones[z].records : z \in DOMAIN chapter_zones},
         metadata |-> UNION {chapter_zones[z].metadata : z \in DOMAIN chapter_zones}]]

\* ------------------------------------------------------- request pipeline

\* set_chapter_location
set_chapter_location(request, z, virtual_chapter) ==
    [request EXCEPT
        !.found = TRUE,
        !.location = IF virtual_chapter = zones[z].newest_virtual_chapter
                     THEN UDS_LOCATION_IN_OPEN_CHAPTER
                     ELSE IF is_zone_chapter_sparse(z, virtual_chapter)
                     THEN UDS_LOCATION_IN_SPARSE
                     ELSE UDS_LOCATION_IN_DENSE]

\* sparse_cache_contains
sparse_cache_contains(cache, virtual_chapter) == virtual_chapter \in cache

\* update_sparse_cache: make virtual_chapter a member of the sparse cache,
\* dropping the members that have left the volume.
update_sparse_cache(cache, z, virtual_chapter) ==
    IF sparse_cache_contains(cache, virtual_chapter) THEN cache
    ELSE {c \in cache : c >= zones[z].oldest_virtual_chapter} \cup {virtual_chapter}

\* search_sparse_cache: the newest cached chapter (virtual_chapter itself when
\* one is asked for) whose chapter index holds the name, or NoChapter.
search_sparse_cache(cache, z, name, virtual_chapter) ==
    LET hits == {c \in cache :
                    /\ c >= zones[z].oldest_virtual_chapter
                    /\ virtual_chapter = NoChapter \/ c = virtual_chapter
                    /\ volume[map_to_physical_chapter(geometry, c)].virtual_chapter = c
                    /\ name \in volume[map_to_physical_chapter(geometry, c)].records}
    IN IF hits = {} THEN NoChapter ELSE CHOOSE c \in hits : \A d \in hits : d <= c

\* search_sparse_cache_in_zone. hit: the record page is in the page cache.
search_sparse_cache_in_zone(cache, z, request, virtual_chapter, hit) ==
    LET chapter == search_sparse_cache(cache, z, request.record_name, virtual_chapter)
    IN IF chapter = NoChapter
       THEN [result |-> UDS_SUCCESS, found |-> FALSE, request |-> request]
       ELSE IF hit
       THEN [result |-> UDS_SUCCESS,
             found |-> search_volume(volume, chapter, request.record_name),
             request |-> with_old_metadata(
                             [request EXCEPT !.virtual_chapter = chapter],
                             volume[map_to_physical_chapter(geometry, chapter)].metadata)]
       ELSE [result |-> UDS_QUEUED, found |-> FALSE,
             request |-> [request EXCEPT !.virtual_chapter = chapter]]

\* get_record_from_zone. hit: the pages it needs are in the page cache.
get_record_from_zone(cache, z, request, hit) ==
    IF request.location = UDS_LOCATION_RECORD_PAGE_LOOKUP
    THEN [result |-> UDS_SUCCESS, found |-> TRUE, request |-> request]
    ELSE IF request.location = UDS_LOCATION_UNAVAILABLE
    THEN [result |-> UDS_SUCCESS, found |-> FALSE, request |-> request]
    ELSE IF request.virtual_chapter = zones[z].newest_virtual_chapter
    THEN [result |-> UDS_SUCCESS,
          found |-> search_open_chapter(open_chapter(z), request.record_name),
          request |-> with_old_metadata(request, open_chapter(z).metadata)]
    ELSE IF /\ zones[z].newest_virtual_chapter > 0
            /\ request.virtual_chapter = zones[z].newest_virtual_chapter - 1
            /\ writing_chapter(z).size > 0
    THEN [result |-> UDS_SUCCESS,
          found |-> search_open_chapter(writing_chapter(z), request.record_name),
          request |-> with_old_metadata(request, writing_chapter(z).metadata)]
    ELSE IF /\ is_zone_chapter_sparse(z, request.virtual_chapter)
            /\ sparse_cache_contains(cache, request.virtual_chapter)
    THEN search_sparse_cache_in_zone(cache, z, request, request.virtual_chapter, hit)
    ELSE IF hit
    THEN [result |-> UDS_SUCCESS,
          found |-> search_volume(volume, request.virtual_chapter, request.record_name),
          request |-> with_old_metadata(request,
                          volume[map_to_physical_chapter(geometry,
                                                         request.virtual_chapter)].metadata)]
    ELSE [result |-> UDS_QUEUED, found |-> FALSE, request |-> request]

\* What a dispatch leaves behind: its result, the request, the volume index,
\* the zone's open chapter, and whether it went on into open_next_chapter.
Outcome(result, request, vi, chapter, closing) ==
    [result |-> result, request |-> request, volume_index |-> vi,
     open_chapter |-> chapter, closing |-> closing]

\* A faulty search_index_zone that stores the request's new data in every case.
record_new_metadata(request) == request.new_metadata

\* search_index_zone, lines 528-534: the data of the record it is about to put
\* in the open chapter. request.found is the function's local `found` there:
\* set_chapter_location and set_request_location have set it where the name
\* was found, and nothing has where it was not.
record_metadata(request) ==
    IF ~request.found \/ request.type = UDS_UPDATE
    THEN request.new_metadata
    ELSE request.old_metadata

\* put_record_in_zone, with the data search_index_zone has chosen.
put_record_in_zone(z, request, vi) ==
    LET remaining == put_open_chapter_remaining(open_chapter(z), request.record_name,
                                                geometry.capacity)
    IN Outcome(UDS_SUCCESS, request, vi,
               put_open_chapter(open_chapter(z), request.record_name,
                                record_metadata(request), geometry.capacity),
               remaining = 0)

\* A faulty search_index_zone that puts the record in the open chapter but
\* leaves the volume index as it was.
record_in_zone_unindexed(z, request, result) ==
    put_record_in_zone(z, request, volume_index)

\* A faulty search_index_zone that lacks the test for UDS_OVERFLOW and goes on
\* to put the record in the open chapter.
record_in_zone_despite_overflow(z, request, result) ==
    put_record_in_zone(z, request,
        IF result = UDS_OVERFLOW THEN volume_index
        ELSE put_volume_index_record(volume_index, request.record_name,
                                     zones[z].newest_virtual_chapter))

\* search_index_zone from the update of the volume index on (lines 517-534):
\* result is what set_volume_index_record_chapter or put_volume_index_record
\* returned.
record_in_zone(z, request, result) ==
    IF result = UDS_OVERFLOW
    THEN Outcome(UDS_SUCCESS, request, volume_index, open_chapter(z), FALSE)
    ELSE put_record_in_zone(z, request,
             put_volume_index_record(volume_index, request.record_name,
                                     zones[z].newest_virtual_chapter))

\* A faulty search_index_zone that lacks the test for UDS_QUERY_NO_UPDATE on a
\* name it has found.
search_found_updating(z, request, record, overflow) ==
    IF record.virtual_chapter # zones[z].newest_virtual_chapter
    THEN record_in_zone(z, request, IF overflow THEN UDS_OVERFLOW ELSE UDS_SUCCESS)
    ELSE IF request.type # UDS_UPDATE
    THEN Outcome(UDS_SUCCESS, request, volume_index, open_chapter(z), FALSE)
    ELSE record_in_zone(z, request, UDS_SUCCESS)

\* search_index_zone when the name is found where the volume index said.
search_found(z, request, record, overflow) ==
    IF request.type = UDS_QUERY_NO_UPDATE
    THEN Outcome(UDS_SUCCESS, request, volume_index, open_chapter(z), FALSE)
    ELSE IF record.virtual_chapter # zones[z].newest_virtual_chapter
    THEN record_in_zone(z, request, IF overflow THEN UDS_OVERFLOW ELSE UDS_SUCCESS)
    ELSE IF request.type # UDS_UPDATE
    THEN Outcome(UDS_SUCCESS, request, volume_index, open_chapter(z), FALSE)
    ELSE record_in_zone(z, request, UDS_SUCCESS)

\* search_index_zone when the volume index has no record that leads to the name.
search_not_found(cache, z, request, hit, overflow) ==
    LET sparse == IF request.location = UDS_LOCATION_RECORD_PAGE_LOOKUP
                  THEN [result |-> UDS_SUCCESS, found |-> TRUE, request |-> request]
                  ELSE IF request.location = UDS_LOCATION_UNAVAILABLE
                  THEN [result |-> UDS_SUCCESS, found |-> FALSE, request |-> request]
                  ELSE IF /\ is_sparse_geometry(geometry)
                          /\ ~is_volume_index_sample(request.record_name)
                  THEN search_sparse_cache_in_zone(cache, z, request, NoChapter, hit)
                  ELSE [result |-> UDS_SUCCESS, found |-> FALSE, request |-> request]
        located == IF sparse.found
                   THEN set_request_location(sparse.request, UDS_LOCATION_IN_SPARSE)
                   ELSE sparse.request
    IN IF sparse.result # UDS_SUCCESS
       THEN Outcome(sparse.result, sparse.request, volume_index, open_chapter(z), FALSE)
       ELSE IF \/ request.type = UDS_QUERY_NO_UPDATE
               \/ request.type = UDS_QUERY /\ ~sparse.found
       THEN Outcome(UDS_SUCCESS, located, volume_index, open_chapter(z), FALSE)
       ELSE record_in_zone(z, located, IF overflow THEN UDS_OVERFLOW ELSE UDS_SUCCESS)

\* search_index_zone. hit: the pages needed are cached; overflow: the volume
\* index answers its update with UDS_OVERFLOW.
search_index_zone(cache, z, request, hit, overflow) ==
    LET record == get_volume_index_record(volume_index, request.record_name)
        relocated == IF request.requeued
                        /\ request.virtual_chapter # record.virtual_chapter
                     THEN set_request_location(request, UDS_LOCATION_UNKNOWN)
                     ELSE request
        got == IF record.is_found
               THEN get_record_from_zone(cache, z,
                        [relocated EXCEPT !.virtual_chapter = record.virtual_chapter], hit)
               ELSE [result |-> UDS_SUCCESS, found |-> FALSE, request |-> request]
    IN IF got.result # UDS_SUCCESS
       THEN Outcome(got.result, got.request, volume_index, open_chapter(z), FALSE)
       ELSE IF got.found
       THEN search_found(z, set_chapter_location(got.request, z, record.virtual_chapter),
                         record, overflow)
       ELSE search_not_found(cache, z, got.request, hit, overflow)

\* A faulty remove_from_index_zone that leaves the open chapter alone.
in_no_open_chapter(request) == FALSE

\* remove_from_index_zone: if (request->location == UDS_LOCATION_IN_OPEN_CHAPTER)
in_open_chapter(request) == request.location = UDS_LOCATION_IN_OPEN_CHAPTER

\* remove_from_index_zone
remove_from_index_zone(cache, z, request, hit) ==
    LET record == get_volume_index_record(volume_index, request.record_name)
        relocated == IF request.requeued
                        /\ request.virtual_chapter # record.virtual_chapter
                     THEN set_request_location(request, UDS_LOCATION_UNKNOWN)
                     ELSE request
        got == get_record_from_zone(cache, z,
                   [relocated EXCEPT !.virtual_chapter = record.virtual_chapter], hit)
        located == set_chapter_location(got.request, z, record.virtual_chapter)
    IN IF ~record.is_found
       THEN Outcome(UDS_SUCCESS, request, volume_index, open_chapter(z), FALSE)
       ELSE IF got.result # UDS_SUCCESS
       THEN Outcome(got.result, got.request, volume_index, open_chapter(z), FALSE)
       ELSE IF ~got.found
       THEN Outcome(UDS_SUCCESS, got.request, volume_index, open_chapter(z), FALSE)
       ELSE Outcome(UDS_SUCCESS, located,
                    remove_volume_index_record(volume_index, request.record_name),
                    IF in_open_chapter(located)
                    THEN remove_from_open_chapter(open_chapter(z), request.record_name)
                    ELSE open_chapter(z),
                    FALSE)

\* triage_index_request: the sparse chapter a request should bring into the
\* sparse cache, or NoChapter.
triage_index_request(request, zone_number) ==
    LET virtual_chapter == lookup_volume_index_name(volume_index, request.record_name)
    IN IF virtual_chapter = NoChapter THEN NoChapter
       ELSE IF ~is_zone_chapter_sparse(zone_number, virtual_chapter)
       THEN NoChapter
       ELSE virtual_chapter

\* A faulty simulate_index_zone_barrier_message that never changes the cache.
simulate_no_barrier_message(z, request) == sparse_cache

\* simulate_index_zone_barrier_message: the sparse cache after it.
simulate_index_zone_barrier_message(z, request) ==
    IF zone_count > 1 \/ ~is_sparse_geometry(geometry) THEN sparse_cache
    ELSE IF triage_index_request(request, z) = NoChapter THEN sparse_cache
    ELSE update_sparse_cache(sparse_cache, z, triage_index_request(request, z))

\* dispatch_index_request
dispatch_index_request(z, request, hit, overflow) ==
    LET cache == IF request.requeued THEN sparse_cache
                 ELSE simulate_index_zone_barrier_message(z, request)
    IN [outcome |-> IF request.type = UDS_DELETE
                    THEN remove_from_index_zone(cache, z, request, hit)
                    ELSE search_index_zone(cache, z, request, hit, overflow),
        sparse_cache |-> cache]

\* ---------------------------------------------------------- zone threads

\* The position of a zone thread: idle between requests, or inside
\* open_next_chapter with its local variables.
Idle == [pc |-> "idle", closed_chapter |-> NoChapter, finished_zones |-> 0]

\* The position of the triage thread: idle, or inside triage_request with the
\* request it holds, the chapter it triaged and the next zone to send a
\* barrier message to.
NoTriage == [pc |-> "idle", request |-> NoRequest, virtual_chapter |-> NoChapter, zone |-> 0]

\* ----------------------------------------------------------------- Init

\* The name whose record a loaded index holds in chapter c.
LoadedName(c) == 1 + (c % NameCount)

\* The chapters 0..loaded-1 that expired while they were written.
RECURSIVE LoadedOldest(_, _)
LoadedOldest(g, loaded) ==
    IF loaded = 0 THEN 0
    ELSE LoadedOldest(g, loaded - 1) + chapters_to_expire(g, loaded)

\* The index as make_index leaves it, before the first request of a caller
\* with workload w: a new index (UDS_CREATE) when loaded is 0, and otherwise
\* one loaded (UDS_LOAD) from a clean save made after `loaded` chapters were
\* committed, chapter c with the one record LoadedName(c), and with an empty
\* open chapter (lines 1302-1320).
MakeIndex(w, loaded) ==
    /\ delta_zone = <<>> /\ delta_entry = <<>> /\ delta_op = <<>>
    /\ NoRest
    /\ zone_count \in 1..MaxZones
    /\ geometry \in [chapters_per_volume : {ChaptersPerVolume},
                     sparse_chapters_per_volume : {0, 1},
                     capacity : 1..MaxCapacity]
    /\ index = [newest_virtual_chapter |-> loaded,
                oldest_virtual_chapter |-> LoadedOldest(geometry, loaded),
                has_saved_open_chapter |-> loaded > 0, need_to_save |-> loaded = 0,
                triage_queue |-> <<>>, triage |-> NoTriage, triage_log |-> <<>>]
    /\ zones = [z \in Zones |->
                  [newest_virtual_chapter |-> index.newest_virtual_chapter,
                   oldest_virtual_chapter |-> index.oldest_virtual_chapter,
                   open |-> 0]]
    /\ chapters = [z \in Zones |-> [b \in {0, 1} |-> EmptyChapter]]
    /\ zone_queues = [z \in Zones |-> <<>>]
    /\ zone_pc = [z \in Zones |-> Idle]
    /\ zone_request = [z \in Zones |-> NoRequest]
    /\ writer = [zones_to_write |-> 0, result |-> UDS_SUCCESS, stop |-> FALSE,
                 chapters |-> [z \in Zones |-> NullChapter], pc |-> "wait"]
    /\ volume_index =
          [chapter |-> [n \in AllNames |->
                          LET held == {c \in 0..(loaded - 1) : LoadedName(c) = n}
                          IN IF held = {} THEN NoChapter
                             ELSE CHOOSE c \in held : \A d \in held : d <= c],
           open_chapter |-> [z \in Zones |-> loaded]]
    /\ volume = [p \in 0..(ChaptersPerVolume - 1) |->
                   LET held == {c \in 0..(loaded - 1) :
                                   map_to_physical_chapter(geometry, c) = p}
                   IN IF held = {}
                      THEN [virtual_chapter |-> NoChapter, records |-> {}, metadata |-> {}]
                      ELSE LET c == CHOOSE c \in held : \A d \in held : d <= c
                           IN [virtual_chapter |-> c, records |-> {LoadedName(c)},
                               metadata |-> {<<LoadedName(c), 0>>}]]
    /\ sparse_cache = {}
    /\ parked = {}
    /\ workload = w
    /\ submitted = 0
    /\ callbacks = [i \in 1..w.limit |-> 0]
    /\ last_callback = NoRequest
    /\ announcements = <<>>
    /\ forgotten = <<>>
    /\ committed = <<>>
    /\ overflowed = {}
    /\ overflows = 0

\* The callers: any requests in any order; posts only; posts and then
\* queries for the posted names in the order they were posted. With faults
\* the storage may fail a chapter write or a page read and the volume index
\* may report an overflow; without, every such operation succeeds.
AnyRequests == [mode |-> "any", limit |-> MaxRequests, posts |-> <<>>, queries |-> 0,
                faults |-> TRUE, stage |-> STAGE_INDEX]
SoundRequests == [mode |-> "any", limit |-> MaxRequests, posts |-> <<>>, queries |-> 0,
                  faults |-> FALSE, stage |-> STAGE_INDEX]
\* The caller of a sparse multi-zone index, whose requests pass the triage queue.
TriagedRequests == [mode |-> "any", limit |-> MaxRequests, posts |-> <<>>, queries |-> 0,
                    faults |-> FALSE, stage |-> STAGE_TRIAGE]
Posts == [mode |-> "post", limit |-> MaxPosts, posts |-> <<>>, queries |-> 0,
          faults |-> TRUE, stage |-> STAGE_INDEX]
LivePosts == [mode |-> "post", limit |-> MaxLivePosts, posts |-> <<>>, queries |-> 0,
              faults |-> TRUE, stage |-> STAGE_INDEX]
PostsThenQueries == [mode |-> "post_query", limit |-> MaxPosts, posts |-> <<>>,
                     queries |-> 0, faults |-> TRUE, stage |-> STAGE_INDEX]

\* The caller that posts two chapters of two names, with a deletion of a
\* posted name at some point, and then submits any requests.
PostOrders == {<<1, 2, 3, 4>>, <<2, 1, 3, 4>>}
PostsDeleteThenAny(order) ==
    [mode |-> "post_delete_any", limit |-> Len(order) + MaxDeletes + MaxAfter,
     posts |-> <<>>, queries |-> 0, faults |-> FALSE, stage |-> STAGE_INDEX,
     order |-> order, deletes |-> 0, deleted |-> {}, following |-> {}]

\* What a chapter write or a page read may return, and whether the volume
\* index may overflow, under the run's storage.
Results == IF workload.faults THEN {UDS_SUCCESS, EIO} ELSE {UDS_SUCCESS}
Overflows == IF workload.faults THEN BOOLEAN ELSE {FALSE}

Init == MakeIndex(AnyRequests, 0)
\* A loaded index of one-record chapters without sparse chapters.
InitLoaded ==
    /\ MakeIndex(SoundRequests, MaxLoaded)
    /\ geometry.capacity = 1
    /\ geometry.sparse_chapters_per_volume = 0
InitPosts == MakeIndex(Posts, 0)
\* A new single-zone index, sparse or not, with chapters of two records.
InitReposts ==
    /\ \E order \in PostOrders : MakeIndex(PostsDeleteThenAny(order), 0)
    /\ zone_count = 1
    /\ geometry.capacity = 2
InitPostsThenQueries == MakeIndex(PostsThenQueries, 0)
\* A new multi-zone index under a caller that only posts.
InitLive == MakeIndex(LivePosts, 0) /\ zone_count > 1

\* enqueue_request(request, STAGE_INDEX) and (.., STAGE_MESSAGE): the queues
\* after the request is put on the queue of zone z.
enqueue_request(queues, request, z) == [queues EXCEPT ![z] = Append(@, request)]

\* What the caller's callback notes: the caller of the runs that post chapters
\* again keeps the names whose deletion the index reported done and that no
\* POST or UPDATE, and no QUERY that found the name, has completed for since,
\* and the UDS_QUERY_NO_UPDATE requests it has submitted for such names.
callback_noted(w, request) ==
    IF w.mode # "post_delete_any" THEN w
    ELSE IF request.type = UDS_DELETE /\ request.found /\ request.status = UDS_SUCCESS
    THEN [w EXCEPT !.deleted = @ \cup {request.record_name}]
    ELSE IF request.type \in {UDS_POST, UDS_UPDATE} \/ (request.type = UDS_QUERY /\ request.found)
    THEN [w EXCEPT !.deleted = @ \ {request.record_name},
                   !.following = {f \in @ : f.name # request.record_name}]
    ELSE w

\* index->callback(request)
Callback(request) ==
    /\ callbacks' = [callbacks EXCEPT ![request.id] = @ + 1]
    /\ last_callback' = request
    /\ workload' = callback_noted(workload, request)

\* The end of execute_zone_request for a data request whose dispatch returned
\* result (lines 656-660).
CompleteRequest(request, result) ==
    Callback([(IF request.found THEN request
               ELSE set_request_location(request, UDS_LOCATION_UNAVAILABLE))
              EXCEPT !.status = result])

\* The end of execute_zone_request for whatever request the zone holds: a zone
\* message is freed, a data request goes to the callback.
FinishRequest(request, result) ==
    IF request.zone_message # UDS_MESSAGE_NONE
    THEN UNCHANGED <<callbacks, last_callback, workload>>
    ELSE CompleteRequest(request, result)

\* A faulty execute_zone_request that lacks the return after UDS_QUEUED and
\* completes the request it has just parked.
QueuedRequestCompleted(request) ==
    /\ parked' = parked \cup {request}
    /\ CompleteRequest(request, UDS_QUEUED)

\* execute_zone_request when dispatch returned UDS_QUEUED (lines 651-653): the
\* request stays with the pending read and is not completed.
QueuedRequest(request) ==
    /\ parked' = parked \cup {request}
    /\ UNCHANGED <<callbacks, last_callback, workload>>

\* The number of submitted requests the callback has not been given yet.
RECURSIVE CallbackCount(_)
CallbackCount(i) == IF i = 0 THEN 0 ELSE callbacks[i] + CallbackCount(i - 1)

Outstanding == submitted - CallbackCount(workload.limit)

\* make_index_zones: the triage queue exists in a sparse multi-zone index.
has_triage_queue == zone_count > 1 /\ is_sparse_geometry(geometry)

\* The caller submits a data request: enqueue_request(request, stage), which
\* puts it on the triage queue, if the stage is STAGE_TRIAGE and the index has
\* one, and else on the queue of the zone of its name.
Submit(type, name) ==
    /\ UNCHANGED <<delta_vars, rest_vars>>
    /\ ~writer.stop
    /\ submitted < workload.limit
    /\ Outstanding < MaxOutstanding
    /\ workload.mode # "post_delete_any" => name \in Names
    /\ workload.mode = "post" => type = UDS_POST
    /\ workload.mode = "post_delete_any" =>
           IF Len(workload.posts) < Len(workload.order)
           THEN \/ type = UDS_POST /\ name = workload.order[Len(workload.posts) + 1]
                \/ /\ type = UDS_DELETE
                   /\ workload.deletes < MaxDeletes
                   /\ \E i \in 1..Len(workload.posts) : workload.posts[i] = name
           ELSE workload.queries < MaxAfter
    /\ workload.mode = "post_query" =>
           \/ type = UDS_POST /\ workload.queries = 0
           \/ /\ type = UDS_QUERY
              /\ workload.queries < Len(workload.posts)
              /\ name = workload.posts[workload.queries + 1]
    /\ workload' = IF workload.mode = "post_delete_any"
                   THEN IF Len(workload.posts) = Len(workload.order)
                        THEN [workload EXCEPT
                                 !.queries = @ + 1,
                                 !.following =
                                     IF /\ type = UDS_QUERY_NO_UPDATE
                                        /\ name \in workload.deleted
                                     THEN @ \cup {[id |-> submitted + 1, name |-> name]}
                                     ELSE @]
                        ELSE IF type = UDS_POST
                        THEN [workload EXCEPT !.posts = Append(@, name)]
                        ELSE [workload EXCEPT !.deletes = @ + 1]
                   ELSE IF workload.mode # "post_query" THEN workload
                   ELSE IF type = UDS_POST
                   THEN [workload EXCEPT !.posts = Append(@, name)]
                   ELSE [workload EXCEPT !.queries = @ + 1]
    /\ submitted' = submitted + 1
    /\ IF workload.stage = STAGE_TRIAGE /\ has_triage_queue
       THEN /\ index' = [index EXCEPT !.triage_queue =
                                          Append(@, CallerRequest(submitted + 1, type, name))]
            /\ UNCHANGED zone_queues
       ELSE /\ zone_queues' = enqueue_request(zone_queues,
                                              CallerRequest(submitted + 1, type, name),
                                              get_volume_index_zone(name))
            /\ UNCHANGED index
    /\ UNCHANGED <<zone_count, geometry, zones, chapters, zone_pc, zone_request, writer,
                   volume_index, volume, sparse_cache, parked, callbacks,
                   last_callback,
                   announcements, forgotten, committed, overflowed, overflows>>

\* A faulty handle_chapter_closed that closes the open chapter on every
\* chapter-closed message.
handle_chapter_closed_always(z, virtual_chapter) == TRUE

\* handle_chapter_closed: whether the message makes the zone close its open
\* chapter.
handle_chapter_closed(z, virtual_chapter) ==
    zones[z].newest_virtual_chapter = virtual_chapter

\* execute_zone_request on a zone message: dispatch_index_zone_control_request.
\* A chapter-closed message for the zone's open chapter enters
\* open_next_chapter; any other is handled and freed at once.
ExecuteZoneMessage(z) ==
    /\ UNCHANGED <<delta_vars, rest_vars>>
    /\ zone_pc[z].pc = "idle"
    /\ zone_queues[z] # <<>>
    /\ Head(zone_queues[z]).zone_message # UDS_MESSAGE_NONE
    /\ LET request == Head(zone_queues[z])
       IN /\ zone_queues' = [zone_queues EXCEPT ![z] = Tail(@)]
          /\ IF /\ request.zone_message = UDS_MESSAGE_ANNOUNCE_CHAPTER_CLOSED
                /\ handle_chapter_closed(z, request.message_chapter)
             THEN /\ zone_pc' = [zone_pc EXCEPT ![z].pc = "finish_previous_chapter"]
                  /\ zone_request' = [zone_request EXCEPT ![z] = request]
                  /\ UNCHANGED sparse_cache
             ELSE /\ sparse_cache' =
                        IF request.zone_message = UDS_MESSAGE_SPARSE_CACHE_BARRIER
                        THEN update_sparse_cache(sparse_cache, z, request.message_chapter)
                        ELSE sparse_cache
                  /\ UNCHANGED <<zone_pc, zone_request>>
    /\ UNCHANGED <<zone_count, workload, geometry, zones, chapters, writer, index, volume_index,
                   volume, parked, submitted, callbacks, last_callback, announcements, forgotten,
                   committed, overflowed, overflows>>

\* A faulty execute_zone_request that lacks the test of a requeued request's
\* status.
requeued_with_error_ignored(request) == FALSE

\* execute_zone_request, line 645: the request comes back from a page read
\* that failed.
requeued_with_error(request) == request.requeued /\ request.status # UDS_SUCCESS

\* execute_zone_request on a data request. The request is completed, parked
\* (UDS_QUEUED) or, when its record filled the open chapter, held while the
\* zone goes on into open_next_chapter.
ExecuteZoneRequest(z, hit, overflow) ==
    /\ UNCHANGED <<delta_vars, rest_vars>>
    /\ zone_pc[z].pc = "idle"
    /\ zone_queues[z] # <<>>
    /\ Head(zone_queues[z]).zone_message = UDS_MESSAGE_NONE
    /\ \E dispatch \in {dispatch_index_request(z, Head(zone_queues[z]), hit, overflow)} :
       LET request == Head(zone_queues[z])
           outcome == dispatch.outcome
       IN /\ zone_queues' = [zone_queues EXCEPT ![z] = Tail(@)]
          /\ index' = [index EXCEPT !.need_to_save = TRUE]
          /\ IF requeued_with_error(request)
             THEN /\ Callback(set_request_location(request, UDS_LOCATION_UNAVAILABLE))
                  /\ UNCHANGED <<chapters, zone_pc, zone_request, volume_index,
                                 sparse_cache, parked, overflowed, overflows>>
             ELSE /\ sparse_cache' = dispatch.sparse_cache
                  /\ volume_index' = outcome.volume_index
                  /\ chapters' = [chapters EXCEPT ![z][zones[z].open] = outcome.open_chapter]
                  /\ IF overflow /\ dispatch # dispatch_index_request(z, request, hit, FALSE)
                     THEN /\ overflowed' = overflowed \cup {request.record_name}
                          /\ overflows' = overflows + 1
                     ELSE UNCHANGED <<overflowed, overflows>>
                  /\ IF outcome.result = UDS_QUEUED
                     THEN /\ QueuedRequest(outcome.request)
                          /\ UNCHANGED <<zone_pc, zone_request>>
                     ELSE IF outcome.closing
                     THEN /\ zone_pc' = [zone_pc EXCEPT ![z].pc = "finish_previous_chapter"]
                          /\ zone_request' = [zone_request EXCEPT ![z] = outcome.request]
                          /\ UNCHANGED <<parked, callbacks, last_callback, workload>>
                     ELSE /\ CompleteRequest(outcome.request, outcome.result)
                          /\ UNCHANGED <<zone_pc, zone_request, parked>>
    /\ UNCHANGED <<zone_count, geometry, zones, writer, volume, submitted,
                   announcements, forgotten, committed>>

\* A faulty finish_previous_chapter that never waits for the writer.
finish_previous_chapter_never_waits(z) == FALSE

\* The condition finish_previous_chapter waits on (line 187): the writer has
\* yet to commit the chapter before the zone's open chapter.
finish_previous_chapter_waits(z) ==
    index.newest_virtual_chapter < zones[z].newest_virtual_chapter

\* A faulty finish_previous_chapter that ignores the writer's result.
finish_previous_chapter_succeeds(z) == UDS_SUCCESS

\* What finish_previous_chapter returns once it has waited (lines 189-195):
\* the result of the writer's last commit.
finish_previous_chapter(z) == writer.result

\* open_next_chapter through swap_open_chapter: finish_previous_chapter waits
\* under the writer's mutex until the previous chapter is committed and reads
\* the writer's result. On an error open_next_chapter returns it and the
\* request ends; otherwise the zone swaps its chapters, moves on to the next
\* virtual chapter and resets its new open chapter (lines 268-276).
SwapOpenChapter(z) ==
    /\ UNCHANGED <<delta_vars, rest_vars>>
    /\ zone_pc[z].pc = "finish_previous_chapter"
    /\ ~finish_previous_chapter_waits(z)
    /\ IF finish_previous_chapter(z) # UDS_SUCCESS
       THEN /\ FinishRequest(zone_request[z], finish_previous_chapter(z))
            /\ zone_pc' = [zone_pc EXCEPT ![z] = Idle]
            /\ zone_request' = [zone_request EXCEPT ![z] = NoRequest]
            /\ UNCHANGED <<zones, chapters, volume_index>>
       ELSE /\ zones' = [zones EXCEPT ![z].open = 1 - @,
                                      ![z].newest_virtual_chapter = @ + 1]
            /\ volume_index' = set_volume_index_zone_open_chapter(volume_index, z,
                                   zones[z].newest_virtual_chapter + 1)
            /\ chapters' = [chapters EXCEPT ![z][1 - zones[z].open] =
                                reset_open_chapter(@)]
            /\ zone_pc' = [zone_pc EXCEPT ![z] =
                              [pc |-> "start_closing_chapter",
                               closed_chapter |-> zones[z].newest_virtual_chapter,
                               finished_zones |-> 0]]
            /\ UNCHANGED <<zone_request, callbacks, last_callback, workload>>
    /\ UNCHANGED <<zone_count, geometry, zone_queues, writer, index, volume,
                   sparse_cache, parked, submitted, announcements, forgotten, committed, overflowed, overflows>>

\* A faulty start_closing_chapter that installs the chapter without counting
\* the zone.
start_closing_chapter_uncounted(z, chapter) ==
    [writer EXCEPT !.chapters[z] = chapter]

\* start_closing_chapter: the writer after zone z hands over chapter.
start_closing_chapter(z, chapter) ==
    [writer EXCEPT !.zones_to_write = @ + 1, !.chapters[z] = chapter]

\* start_closing_chapter: under the writer's mutex, count this zone and hand
\* its writing chapter to the writer.
StartClosingChapter(z) ==
    /\ UNCHANGED <<delta_vars, rest_vars>>
    /\ zone_pc[z].pc = "start_closing_chapter"
    /\ writer' = start_closing_chapter(z, 1 - zones[z].open)
    /\ zone_pc' = [zone_pc EXCEPT ![z].pc = "announce",
                                  ![z].finished_zones = writer'.zones_to_write]
    /\ UNCHANGED <<zone_count, workload, geometry, zones, chapters, zone_queues, zone_request,
                   index, volume_index, volume, sparse_cache, parked, submitted,
                   callbacks, last_callback, announcements, forgotten, committed, overflowed, overflows>>

\* A faulty announce_chapter_closed that launches no message.
announce_chapter_closed_to_none(z, closed_chapter, i) == <<>>

\* announce_chapter_closed: the messages zone z launches for closed_chapter,
\* in the order of the loop.
RECURSIVE announce_chapter_closed(_, _, _)
announce_chapter_closed(z, closed_chapter, i) ==
    IF i >= zone_count THEN <<>>
    ELSE (IF i = z THEN <<>>
          ELSE <<[virtual_chapter |-> closed_chapter, from |-> z, to |-> i]>>)
         \o announce_chapter_closed(z, closed_chapter, i + 1)

\* The zone queues after each message of a list is launched (launch_zone_message).
RECURSIVE launch_zone_messages(_, _)
launch_zone_messages(queues, messages) ==
    IF messages = <<>> THEN queues
    ELSE launch_zone_messages(
             enqueue_request(queues,
                 ZoneMessage(UDS_MESSAGE_ANNOUNCE_CHAPTER_CLOSED,
                             Head(messages).virtual_chapter),
                 Head(messages).to),
             Tail(messages))

\* forget_chapter for each of count chapters from expiring on (lines 293-294).
RECURSIVE forget_chapters(_, _, _, _)
forget_chapters(log, z, expiring, count) ==
    IF count = 0 THEN log
    ELSE forget_chapters(Append(log, [virtual_chapter |-> expiring, zone |-> z]),
                         z, expiring + 1, count - 1)

\* A faulty open_next_chapter in which every zone announces the chapter.
is_any_to_close(finished_zones) == zone_count > 1

\* A faulty open_next_chapter in which every zone forgets the expired chapters.
is_always_last_to_close(finished_zones) == TRUE

\* open_next_chapter, line 279: the zone that closed the chapter first tells
\* the others, when there are others.
is_first_to_close(finished_zones) == finished_zones = 1 /\ zone_count > 1

\* open_next_chapter, line 290: every zone has closed the chapter.
is_last_to_close(finished_zones) == ~(finished_zones < zone_count)

\* The rest of open_next_chapter (lines 279-296) and the end of the request
\* that closed the chapter: the first zone to close announces it, every zone
\* expires its oldest chapters, the last zone forgets them in the volume.
FinishOpenNextChapter(z) ==
    /\ UNCHANGED <<delta_vars, rest_vars>>
    /\ zone_pc[z].pc = "announce"
    /\ LET finished_zones == zone_pc[z].finished_zones
           messages == IF is_first_to_close(finished_zones)
                       THEN announce_chapter_closed(z, zone_pc[z].closed_chapter, 0)
                       ELSE <<>>
           expire_chapters == chapters_to_expire(geometry, zones[z].newest_virtual_chapter)
       IN /\ zone_queues' = launch_zone_messages(zone_queues, messages)
          /\ announcements' = announcements \o messages
          /\ zones' = [zones EXCEPT ![z].oldest_virtual_chapter = @ + expire_chapters]
          /\ forgotten' = IF ~is_last_to_close(finished_zones) THEN forgotten
                          ELSE forget_chapters(forgotten, z,
                                               zones[z].oldest_virtual_chapter,
                                               expire_chapters)
    /\ FinishRequest(zone_request[z], UDS_SUCCESS)
    /\ zone_pc' = [zone_pc EXCEPT ![z] = Idle]
    /\ zone_request' = [zone_request EXCEPT ![z] = NoRequest]
    /\ UNCHANGED <<zone_count, geometry, chapters, writer, index, volume_index, volume,
                   sparse_cache, parked, submitted, committed, overflowed, overflows>>

\* ------------------------------------------------------- chapter writer

\* A faulty close_chapters that starts as soon as one zone has handed over.
close_chapters_waits_for_one == writer.zones_to_write < 1

\* A faulty close_chapters that moves the counters on only after a good commit.
advance_index_on_success(result) ==
    IF result # UDS_SUCCESS THEN index
    ELSE [index EXCEPT
             !.newest_virtual_chapter = @ + 1,
             !.oldest_virtual_chapter =
                 @ + chapters_to_expire(geometry, index.newest_virtual_chapter + 1)]

\* The condition close_chapters waits on (line 696).
close_chapters_waits == writer.zones_to_write < zone_count

\* close_chapters, lines 745-747: the index-wide counters after a commit that
\* returned result.
advance_index(result) ==
    [index EXCEPT
        !.newest_virtual_chapter = @ + 1,
        !.oldest_virtual_chapter =
            @ + chapters_to_expire(geometry, index.newest_virtual_chapter + 1)]

\* close_chapters up to the commit: the writer wakes once every zone has
\* handed over its chapter, drops the mutex and discards a saved open chapter.
WriterBegin ==
    /\ UNCHANGED <<delta_vars, rest_vars>>
    /\ writer.pc = "wait"
    /\ ~close_chapters_waits
    /\ writer' = [writer EXCEPT !.pc = "write"]
    /\ index' = [index EXCEPT !.has_saved_open_chapter = FALSE]
    /\ UNCHANGED <<zone_count, workload, geometry, zones, chapters, zone_queues, zone_pc,
                   zone_request, volume_index, volume, sparse_cache, parked, submitted,
                   callbacks, last_callback, announcements, forgotten, committed, overflowed, overflows>>

\* close_chapters from close_open_chapter on (lines 729-751): the chapter is
\* written (or the write fails), then under the mutex the index-wide counters
\* move on, the result is stored and zones_to_write is reset.
WriterCommit(result) ==
    /\ UNCHANGED <<delta_vars, rest_vars>>
    /\ writer.pc = "write"
    /\ volume' = IF result = UDS_SUCCESS
                 THEN close_open_chapter(volume,
                          [z \in Zones |-> chapters[z][writer.chapters[z]]],
                          index.newest_virtual_chapter)
                 ELSE volume
    /\ index' = advance_index(result)
    /\ writer' = [writer EXCEPT !.result = result, !.zones_to_write = 0, !.pc = "wait"]
    /\ committed' = Append(committed, [virtual_chapter |-> index.newest_virtual_chapter,
                                       zones_to_write |-> writer.zones_to_write,
                                       result |-> result])
    /\ UNCHANGED <<zone_count, workload, geometry, zones, chapters, zone_queues, zone_pc,
                   zone_request, volume_index, sparse_cache, parked, submitted,
                   callbacks, last_callback, announcements, forgotten, overflowed, overflows>>

\* A faulty close_chapters that returns as soon as it is told to stop.
close_chapters_exits_on_stop == writer.stop

\* close_chapters, lines 696-704: inside the wait loop, told to stop and with
\* no zone's chapter handed over, the writer thread returns.
close_chapters_exits ==
    /\ close_chapters_waits
    /\ writer.stop
    /\ writer.zones_to_write = 0

\* The chapter writer thread returns from close_chapters.
WriterExit ==
    /\ UNCHANGED <<delta_vars, rest_vars>>
    /\ writer.pc = "wait"
    /\ close_chapters_exits
    /\ writer' = [writer EXCEPT !.pc = "exited"]
    /\ UNCHANGED <<zone_count, workload, geometry, zones, chapters, zone_queues, zone_pc,
                   zone_request, index, volume_index, volume, sparse_cache, parked,
                   submitted, callbacks, last_callback, announcements, forgotten,
                   committed, overflowed, overflows>>

\* free_index up to stop_chapter_writer's broadcast (lines 1332-1336, 759-766):
\* uds_request_queue_finish has drained every zone queue and joined the zone
\* threads, no request is left with a pending read, and the writer is told to
\* stop.
StopChapterWriter ==
    /\ UNCHANGED <<delta_vars, rest_vars>>
    /\ ~writer.stop
    /\ \A z \in Zones : zone_queues[z] = <<>> /\ zone_pc[z].pc = "idle"
    /\ parked = {}
    /\ writer' = [writer EXCEPT !.stop = TRUE]
    /\ UNCHANGED <<zone_count, workload, geometry, zones, chapters, zone_queues, zone_pc,
                   zone_request, index, volume_index, volume, sparse_cache, parked,
                   submitted, callbacks, last_callback, announcements, forgotten,
                   committed, overflowed, overflows>>

\* ------------------------------------------------------- reader threads

\* A reader thread finishes the page read a request is parked on and hands the
\* request back to its zone: requeued, with the read's status and, after a
\* good read, with what the search of the page found.
ReadComplete(request, result) ==
    /\ UNCHANGED <<delta_vars, rest_vars>>
    /\ request \in parked
    /\ parked' = parked \ {request}
    /\ zone_queues' = enqueue_request(zone_queues,
           [(IF result # UDS_SUCCESS THEN request
             ELSE with_old_metadata(request,
                      volume[map_to_physical_chapter(geometry,
                                                     request.virtual_chapter)].metadata))
            EXCEPT
               !.requeued = TRUE,
               !.status = result,
               !.found = FALSE,
               !.location = IF result # UDS_SUCCESS THEN @
                            ELSE IF search_volume(volume, request.virtual_chapter,
                                                  request.record_name)
                            THEN UDS_LOCATION_RECORD_PAGE_LOOKUP
                            ELSE UDS_LOCATION_UNAVAILABLE],
           get_volume_index_zone(request.record_name))
    /\ UNCHANGED <<zone_count, workload, geometry, zones, chapters, zone_pc, zone_request, writer,
                   index, volume_index, volume, sparse_cache, submitted, callbacks,
                   last_callback,
                   announcements, forgotten, committed, overflowed, overflows>>

\* ------------------------------------------------------- specification

\* The steps of the caller, the zone threads on requests, the chapter writer
\* and the reader threads.
NextRequests ==
    \/ \E type \in RequestTypes, name \in AllNames : Submit(type, name)
    \/ \E z \in Zones, hit \in BOOLEAN, overflow \in Overflows :
           ExecuteZoneRequest(z, hit, overflow)
    \/ \E z \in Zones : SwapOpenChapter(z)
    \/ \E z \in Zones : StartClosingChapter(z)
    \/ \E z \in Zones : FinishOpenNextChapter(z)
    \/ WriterBegin
    \/ \E result \in Results : WriterCommit(result)
    \/ WriterExit
    \/ StopChapterWriter
    \/ \E request \in parked, result \in Results : ReadComplete(request, result)

Next ==
    \/ NextRequests
    \/ \E z \in Zones : ExecuteZoneMessage(z)

Spec == Init /\ [][Next]_vars

\* An index loaded from a save, under the same caller.
SpecLoaded == InitLoaded /\ [][Next]_vars

\* The same index under a caller that only posts.
SpecPosts == InitPosts /\ [][Next]_vars

\* A single-zone index under a caller that posts chapters again.
SpecReposts == InitReposts /\ [][NextRequests]_vars

\* The same index under a caller that posts and then queries what it posted.
SpecPostsThenQueries == InitPostsThenQueries /\ [][Next]_vars

\* The threads of the index: each zone's thread runs execute_zone_request on
\* its queue, the chapter writer runs close_chapters, the readers finish the
\* pending reads.
ZoneThread(z) ==
    /\ z \in Zones
    /\ \/ ExecuteZoneMessage(z)
       \/ \E hit \in BOOLEAN, overflow \in Overflows : ExecuteZoneRequest(z, hit, overflow)
       \/ SwapOpenChapter(z)
       \/ StartClosingChapter(z)
       \/ FinishOpenNextChapter(z)
ChapterWriterThread ==
    WriterBegin \/ (\E result \in Results : WriterCommit(result)) \/ WriterExit
ReaderThreads == \E request \in parked, result \in Results : ReadComplete(request, result)

\* A new multi-zone index under a caller that only posts, with every thread
\* scheduled again and again.
SpecLive ==
    /\ InitLive
    /\ [][Next]_vars
    /\ \A z \in 0..(MaxZones - 1) : WF_vars(ZoneThread(z))
    /\ WF_vars(ChapterWriterThread)
    /\ WF_vars(ReaderThreads)

\* ------------------------------------------------------------------ claims

\* The zones that are one chapter ahead of the index-wide newest chapter.
ZonesAhead == {z \in Zones : zones[z].newest_virtual_chapter =
                                 index.newest_virtual_chapter + 1}

\* Nothing of the chapter-close protocol is under way: the zones are between
\* requests and the writer holds no chapter.
NoCloseInProgress ==
    /\ \A z \in Zones : zone_pc[z].pc = "idle"
    /\ writer.pc = "wait"
    /\ writer.zones_to_write = 0

\* C1: in every reachable state of a multi-zone index the newest virtual
\* chapters of any two zones differ by at most one.
ZonesWithinOneChapter ==
    \A a, b \in Zones :
        zones[a].newest_virtual_chapter - zones[b].newest_virtual_chapter <= 1

\* A zone one chapter ahead of another has filled its open chapter again and
\* waits in finish_previous_chapter for the writer.
ZoneAheadWaits ==
    \E a, b \in Zones :
        /\ zones[a].newest_virtual_chapter = zones[b].newest_virtual_chapter + 1
        /\ zone_pc[a].pc = "finish_previous_chapter"
        /\ finish_previous_chapter_waits(a)

\* C3: the writer commits only while zones_to_write equals zone_count, that
\* is when every zone has closed the chapter the index-wide newest chapter
\* names; the commits made so far are of consecutive chapters up to the
\* index-wide newest chapter, each once and each with all zones counted;
\* zones_to_write never exceeds zone_count.
CommitsInOrder ==
    /\ writer.zones_to_write <= zone_count
    /\ writer.pc = "write" =>
          /\ writer.zones_to_write = zone_count
          /\ \A z \in Zones :
                /\ zones[z].newest_virtual_chapter = index.newest_virtual_chapter + 1
                /\ writer.chapters[z] = 1 - zones[z].open
    /\ \A i \in 1..Len(committed) :
          /\ committed[i].zones_to_write = zone_count
          /\ committed[i].virtual_chapter =
                 index.newest_virtual_chapter - Len(committed) + i - 1

\* The writer of a multi-zone index is committing its third chapter.
ThirdCommitUnderWay ==
    /\ zone_count > 1
    /\ Len(committed) = 2
    /\ writer.pc = "write"

FailedCommitKeepsCounters ==
    [][(writer.pc = "write" /\ writer'.pc = "wait" /\ writer'.result # UDS_SUCCESS)
          => /\ index'.newest_virtual_chapter = index.newest_virtual_chapter
             /\ index'.oldest_virtual_chapter = index.oldest_virtual_chapter]_vars

\* C10, amended: after every commit attempt, failed or not, the writer
\* increments the index-wide newest chapter and advances the index-wide oldest
\* chapter by the chapters that expire; a failure shows only in the writer's
\* result, and the failed chapter is not in the volume.
EveryCommitAdvancesCounters ==
    [][(writer.pc = "write" /\ writer'.pc = "wait")
          => /\ index'.newest_virtual_chapter = index.newest_virtual_chapter + 1
             /\ index'.oldest_virtual_chapter =
                    index.oldest_virtual_chapter
                        + chapters_to_expire(geometry, index'.newest_virtual_chapter)
             /\ writer'.result # UDS_SUCCESS => volume' = volume]_vars

\* A commit has failed and the index-wide newest chapter has moved past the
\* chapter that was not written.
FailedCommitCounted ==
    /\ committed # <<>>
    /\ committed[Len(committed)].result # UDS_SUCCESS
    /\ writer.result # UDS_SUCCESS
    /\ index.newest_virtual_chapter = committed[Len(committed)].virtual_chapter + 1

\* The number of places that hold request id: zone queues, pending reads and
\* zone threads closing a chapter.
Holders(id) ==
    Cardinality({p \in UNION {{<<z, i>> : i \in 1..Len(zone_queues[z])} : z \in Zones} :
                    zone_queues[p[1]][p[2]].id = id})
    + Cardinality({r \in parked : r.id = id})
    + Cardinality({z \in Zones : zone_pc[z].pc # "idle" /\ zone_request[z].id = id})

\* Every submitted data request is either still with the index, in one place
\* and not yet given to the callback, or was given to the callback once.
CompletedOnce ==
    \A id \in 1..workload.limit :
        IF id <= submitted
        THEN callbacks[id] + Holders(id) = 1
        ELSE callbacks[id] = 0 /\ Holders(id) = 0

\* What the callback is given is a data request with its status and location set.
CompletedWithStatusAndLocation ==
    last_callback # NoRequest =>
        /\ last_callback.zone_message = UDS_MESSAGE_NONE
        /\ last_callback.id \in 1..submitted
        /\ last_callback.status \in {UDS_SUCCESS, EIO}
        /\ last_callback.location \in {UDS_LOCATION_UNAVAILABLE,
                                       UDS_LOCATION_IN_OPEN_CHAPTER,
                                       UDS_LOCATION_IN_DENSE, UDS_LOCATION_IN_SPARSE}
        /\ last_callback.found <=> last_callback.location # UDS_LOCATION_UNAVAILABLE

\* A request whose pass returned UDS_QUEUED is a data request that waits for
\* its page without having been given to the callback.
QueuedWithoutCallback ==
    \A r \in parked : r.zone_message = UDS_MESSAGE_NONE /\ callbacks[r.id] = 0

\* C2 as stated: every data request is given to the callback exactly once with
\* status and location set, a pass that returns UDS_QUEUED gives it to no
\* callback, zone messages never reach the callback, and the pass after the
\* restarter hands a request back completes it (no requeued request is
\* parked again).
RequeuedPassCompletes ==
    /\ CompletedOnce
    /\ CompletedWithStatusAndLocation
    /\ QueuedWithoutCallback
    /\ \A r \in parked : ~r.requeued

\* C2, amended: every data request is given to the callback at most once, and
\* exactly once by the time the index holds it no more, with status and
\* location set; a pass that returns UDS_QUEUED gives it to no callback, also
\* when it is the pass of a request the restarter handed back; zone messages
\* never reach the callback.
EveryRequestCompletedOnce ==
    /\ CompletedOnce
    /\ CompletedWithStatusAndLocation
    /\ QueuedWithoutCallback

\* A request that was parked and handed back has been completed as found.
RequeuedRequestCompleted ==
    /\ last_callback # NoRequest
    /\ last_callback.requeued
    /\ last_callback.found
    /\ callbacks[last_callback.id] = 1

\* The step that gives a QUERY to the callback.
QueryAnswered == callbacks' # callbacks /\ last_callback'.type = UDS_QUERY

\* The chapter the volume index holds for a name, valid or not.
NameChapter(name) == volume_index.chapter[name]

\* The chapter of the name has left the volume.
ChapterExpired(name) ==
    /\ NameChapter(name) # NoChapter
    /\ NameChapter(name) < zones[get_volume_index_zone(name)].oldest_virtual_chapter

\* The name is not a sample and its chapter is sparse by now.
ChapterNowSparse(name) ==
    /\ ~is_volume_index_sample(name)
    /\ NameChapter(name) # NoChapter
    /\ is_zone_chapter_sparse(get_volume_index_zone(name), NameChapter(name))

ChapterClosedMessage(z) ==
    /\ zone_pc[z].pc = "idle"
    /\ zone_queues[z] # <<>>
    /\ Head(zone_queues[z]).zone_message = UDS_MESSAGE_ANNOUNCE_CHAPTER_CLOSED
    /\ zone_queues'[z] = Tail(zone_queues[z])

\* Zone z, in open_next_chapter for a chapter-closed message, moves on.
ClosesForMessage(z) ==
    /\ zone_pc[z].pc = "finish_previous_chapter"
    /\ zone_request[z].zone_message = UDS_MESSAGE_ANNOUNCE_CHAPTER_CLOSED
    /\ zone_pc'[z] # zone_pc[z]

\* C6: a zone that takes ANNOUNCE_CHAPTER_CLOSED(vc) off its queue while its
\* newest chapter is vc enters open_next_chapter, has nothing to wait for and
\* closes its open chapter whatever it holds; a zone that has closed vc
\* already keeps its chapters and counters as they are.
AnnouncedChapterClosedAtOnce ==
    [][\A z \in Zones :
          /\ ChapterClosedMessage(z) =>
                IF zones[z].newest_virtual_chapter = Head(zone_queues[z]).message_chapter
                THEN /\ zone_pc'[z].pc = "finish_previous_chapter"
                     /\ ~finish_previous_chapter_waits(z)
                     /\ writer.result = UDS_SUCCESS
                ELSE /\ zones[z].newest_virtual_chapter >
                            Head(zone_queues[z]).message_chapter
                     /\ zones'[z] = zones[z]
                     /\ chapters'[z] = chapters[z]
                     /\ zone_pc'[z] = zone_pc[z]
          /\ ClosesForMessage(z) =>
                /\ zones'[z].newest_virtual_chapter = zones[z].newest_virtual_chapter + 1
                /\ zones'[z].open # zones[z].open
                /\ zone_pc'[z].pc = "start_closing_chapter"
                /\ zone_pc'[z].closed_chapter = zone_request[z].message_chapter]_vars

\* A zone has closed an empty open chapter because of a message.
EmptyChapterClosedForMessage ==
    \E z \in Zones :
        /\ zone_pc[z].pc = "start_closing_chapter"
        /\ zone_request[z].zone_message = UDS_MESSAGE_ANNOUNCE_CHAPTER_CLOSED
        /\ zone_pc[z].closed_chapter = zone_request[z].message_chapter
        /\ writing_chapter(z).size = 0

\* The chapter-closed messages launched so far for chapter n.
Announced(n) ==
    {i \in 1..Len(announcements) : announcements[i].virtual_chapter = n}

\* Zone z is inside open_next_chapter after closing chapter n.
Closing(z, n) ==
    /\ zone_pc[z].pc \in {"start_closing_chapter", "announce"}
    /\ zone_pc[z].closed_chapter = n

LeavesFinishPreviousChapter(z) ==
    /\ zone_pc[z].pc = "finish_previous_chapter"
    /\ zone_pc'[z] # zone_pc[z]

\* C11: the writer's result is the result of its last commit; a zone that
\* leaves finish_previous_chapter while that result is an error ends its
\* request with the error (a data request goes to the callback with it) and
\* leaves its chapters, its counters and the writer as they were; and once a
\* commit has failed no zone swaps its chapters or moves to another chapter
\* and nothing is handed to the writer.
FailedCommitStopsClosing ==
    /\ [](committed # <<>> => writer.result = committed[Len(committed)].result)
    /\ [][\A z \in Zones :
             (LeavesFinishPreviousChapter(z) /\ writer.result # UDS_SUCCESS) =>
                 /\ zone_pc'[z] = Idle
                 /\ zones' = zones /\ chapters' = chapters /\ writer' = writer
                 /\ volume_index' = volume_index
                 /\ zone_request[z].zone_message = UDS_MESSAGE_NONE =>
                        /\ callbacks'[zone_request[z].id] = callbacks[zone_request[z].id] + 1
                        /\ last_callback'.id = zone_request[z].id
                        /\ last_callback'.status = writer.result]_vars
    /\ [][writer.result # UDS_SUCCESS =>
             /\ \A z \in Zones :
                   /\ zones'[z].newest_virtual_chapter = zones[z].newest_virtual_chapter
                   /\ zones'[z].open = zones[z].open
             /\ writer'.zones_to_write = writer.zones_to_write
             /\ writer'.chapters = writer.chapters
             /\ writer'.result = writer.result]_vars

\* A commit failed and the request that filled the next chapter was given to
\* the callback with the writer's error, the zone still in that chapter.
CloseRefusedAfterFailedCommit ==
    /\ writer.result # UDS_SUCCESS
    /\ last_callback.type = UDS_POST
    /\ ~last_callback.requeued
    /\ last_callback.status = writer.result
    /\ \A z \in Zones : zones[z].newest_virtual_chapter = index.newest_virtual_chapter

\* C12: a step in which the volume index answers an update with UDS_OVERFLOW
\* is a zone's pass over a POST, UPDATE or QUERY that gives the request to the
\* callback with status UDS_SUCCESS, adds nothing to any open chapter and
\* starts no chapter close: the zone stays between requests, in the same
\* chapter, and the writer is handed nothing.
OverflowSwallowed ==
    [][overflows' # overflows =>
          \E z \in Zones :
              /\ zone_pc[z].pc = "idle"
              /\ zone_queues[z] # <<>>
              /\ zone_queues'[z] = Tail(zone_queues[z])
              /\ Head(zone_queues[z]).type \in {UDS_POST, UDS_UPDATE, UDS_QUERY}
              /\ callbacks'[Head(zone_queues[z]).id] = callbacks[Head(zone_queues[z]).id] + 1
              /\ last_callback'.id = Head(zone_queues[z]).id
              /\ last_callback'.status = UDS_SUCCESS
              /\ chapters' = chapters
              /\ zone_pc' = zone_pc /\ zones' = zones /\ writer' = writer]_vars

\* The volume index overflowed on the first POST of an index whose open
\* chapters hold one record: the POST succeeded, the open chapters are empty
\* and no chapter was closed.
OverflowedPostClosedNothing ==
    /\ geometry.capacity = 1
    /\ overflows = 1
    /\ submitted = 1
    /\ last_callback.type = UDS_POST
    /\ last_callback.status = UDS_SUCCESS
    /\ \A z \in Zones : /\ open_chapter(z).size = 0
                        /\ zones[z].newest_virtual_chapter = 0
                        /\ zone_pc[z].pc = "idle"

BITS_PER_BYTE == 8
U32_BITS == 32
MAX_BIG_FIELD_BITS == 57
POST_FIELD_GUARD_BYTES == 7
GUARD_BITS == 56
COLLISION_BITS == 256
U16_MAX == 65535

\* ------------------------------------------------------- bit field utilities

\* With(value, Body) is Body(value): it gives a name to a value that is
\* computed once and used several times, as a local variable of the code is.
With(value, Body(_)) == Body(value)

\* The bits offset .. offset + size - 1.
Field(offset, size) == offset..(offset + size - 1)

\* The number whose binary digits are the size bits from offset on.
RECURSIVE FieldValue(_, _, _)
FieldValue(memory, offset, size) ==
    IF size <= 0
    THEN 0
    ELSE (IF offset \in memory THEN 1 ELSE 0) + 2 * FieldValue(memory, offset + 1, size - 1)

\* get_field reads one u32 at the byte of offset, shifts and masks it: the
\* bits of the field beyond that u32 are read as zero.
get_field(memory, offset, size) ==
    LET in_word == U32_BITS - (offset % BITS_PER_BYTE)
    IN  FieldValue(memory, offset, IF size < in_word THEN size ELSE in_word)

\* set_field clears the field in the u32 at the byte of offset and ors in
\* value << shift: the bits of value above size are not masked off. (Every
\* value here is below 2^31, so bit 31 of value is zero.)
set_field(value, memory, offset, size) ==
    LET in_word == U32_BITS - (offset % BITS_PER_BYTE)
        cleared == Field(offset, IF size < in_word THEN size ELSE in_word)
        ones == {offset + i : i \in {j \in 0..(in_word - 1) : j < 31 /\ (value \div 2^j) % 2 = 1}}
    IN  (memory \ cleared) \cup ones

\* A set_zero that leaves the memory as it is.
set_zero_nothing(memory, offset, size) == memory

\* set_zero clears the first byte from the shift on, then whole bytes, then
\* the low bits of the last byte: exactly the bits of the field.
set_zero(memory, offset, size) ==
    IF size > 0 THEN memory \ Field(offset, size) ELSE memory

\* get_big_field followed by set_big_field of what it read: the field (at most
\* MAX_BIG_FIELD_BITS bits, or the low 32 bits of a shifted u64) is carried as
\* the set of its one bits, since it does not fit a 32-bit integer.
copy_field(memory, from_offset, to_offset, size) ==
    (memory \ Field(to_offset, size))
        \cup {to_offset + i : i \in {j \in 0..(size - 1) : from_offset + j \in memory}}

\* The main loop of move_bits_down and of move_bits_up: the 32-bit chunks
\* first .. last - 1 of the field are copied one after the other, the lowest
\* first when moving down and the highest first when moving up. A chunk is
\* read when its turn comes: chunk_source tells whether bit s, read for chunk
\* k, is one then. If an earlier chunk was written over s, the bit is the one
\* that chunk was read from, and otherwise it is the bit of the memory.
RECURSIVE chunk_source(_, _, _, _, _, _, _, _)
chunk_source(memory, from_offset, to_offset, first, last, up, s, k) ==
    IF \/ ~up /\ s >= to_offset + U32_BITS * first /\ s < to_offset + U32_BITS * k
       \/ up /\ s >= to_offset + U32_BITS * (k + 1) /\ s < to_offset + U32_BITS * last
    THEN chunk_source(memory, from_offset, to_offset, first, last, up,
                      from_offset + (s - to_offset), (s - to_offset) \div U32_BITS)
    ELSE s \in memory

copy_chunks(memory, from_offset, to_offset, first, last, up) ==
    IF last <= first
    THEN memory
    ELSE (memory \ Field(to_offset + U32_BITS * first, U32_BITS * (last - first)))
             \cup {to_offset + i :
                      i \in {j \in (U32_BITS * first)..(U32_BITS * last - 1) :
                                chunk_source(memory, from_offset, to_offset, first, last, up,
                                             from_offset + j, j \div U32_BITS)}}

\* The number of turns of "while (size > MAX_BIG_FIELD_BITS) size -= U32_BITS".
chunk_count(size) ==
    IF size > MAX_BIG_FIELD_BITS
    THEN (size - MAX_BIG_FIELD_BITS + U32_BITS - 1) \div U32_BITS
    ELSE 0

move_bits_down(memory, from_offset, to_offset, size) ==
    LET count == MAX_BIG_FIELD_BITS - ((to_offset + MAX_BIG_FIELD_BITS) % U32_BITS)
        chunks == chunk_count(size - count)
        moved == count + U32_BITS * chunks
    IN  With(copy_chunks(copy_field(memory, from_offset, to_offset, count),
                         from_offset + count, to_offset + count, 0, chunks, FALSE),
             LAMBDA main :
                 IF size - moved > 0
                 THEN copy_field(main, from_offset + moved, to_offset + moved, size - moved)
                 ELSE main)

move_bits_up(memory, from_offset, to_offset, size) ==
    LET count == (to_offset + size) % U32_BITS
        chunks == chunk_count(size - count)
        rest == size - count - U32_BITS * chunks
    IN  With(copy_chunks(IF count > 0
                         THEN copy_field(memory, from_offset + size - count,
                                         to_offset + size - count, count)
                         ELSE memory,
                         from_offset + rest, to_offset + rest, 0, chunks, TRUE),
             LAMBDA main :
                 IF rest > 0
                 THEN copy_field(main, from_offset, to_offset, rest)
                 ELSE main)

move_bits(memory, from_offset, to_offset, size) ==
    IF size <= MAX_BIG_FIELD_BITS
    THEN IF size > 0 THEN copy_field(memory, from_offset, to_offset, size) ELSE memory
    ELSE IF from_offset > to_offset
    THEN move_bits_down(memory, from_offset, to_offset, size)
    ELSE move_bits_up(memory, from_offset, to_offset, size)

\* ------------------------------------------------------------ the delta code

\* bits_per of linux/log2.h: the number of bits needed to write n in binary
\* (1 for n = 0 and n = 1, ilog2(n) + 1 otherwise).
RECURSIVE bits_per(_)
bits_per(n) == IF n <= 1 THEN 1 ELSE 1 + bits_per(n \div 2)

compute_coding_constants(mean_delta) ==
    LET incr_keys == (836158 * mean_delta + 603160) \div 1206321
        min_bits == bits_per(incr_keys + 1)
    IN  [incr_keys |-> incr_keys, min_bits |-> min_bits, min_keys |-> 2^min_bits - incr_keys]

\* A set_delta that rounds (delta - min_keys) / incr_keys up.
set_delta_rounding_up(zone, entry, delta) ==
    [entry EXCEPT !.delta = delta,
                  !.entry_bits = zone.value_bits + zone.min_bits
                                 + (IF delta < zone.min_keys
                                    THEN 0
                                    ELSE (delta - zone.min_keys + zone.incr_keys - 1)
                                             \div zone.incr_keys)]

\* set_delta: the size of an entry with this delta. The quotient is taken in
\* unsigned 32-bit arithmetic: incr_keys - min_keys + delta wraps around when
\* it is negative. The u32 is held as two 16-bit halves (hi, lo), the long
\* division by incr_keys is done half by half, min_bits is added modulo 2^32
\* and the sum is read as the int key_bits.
set_delta(zone, entry, delta) ==
    LET x == zone.incr_keys - zone.min_keys + delta
        hi == (x \div 65536) % 65536
        lo == x % 65536
        q_hi == hi \div zone.incr_keys
    IN  With(((hi % zone.incr_keys) * 65536 + lo) \div zone.incr_keys, LAMBDA q_lo :
        With((q_hi + (q_lo + zone.min_bits) \div 65536) % 65536, LAMBDA k_hi :
        With((q_lo + zone.min_bits) % 65536, LAMBDA k_lo :
        With(IF k_hi >= 32768 THEN (k_hi - 65536) * 65536 + k_lo ELSE k_hi * 65536 + k_lo,
             LAMBDA key_bits :
                 [entry EXCEPT !.delta = delta, !.entry_bits = zone.value_bits + key_bits]))))

\* get_delta_entry_offset: the bit offset in memory of the entry. The header of
\* list list_number is delta_lists[list_number + 1]; delta_lists[0] and
\* delta_lists[list_count + 1] are the guard lists.
get_delta_entry_offset(zone, entry) ==
    zone.delta_lists[entry.list_number + 1].start + entry.offset

\* The lowest one bit at or above offset: what ffs finds in the first u32 that
\* is not zero, the u32s being scanned upwards from the one holding offset.
first_one(memory, offset) ==
    CHOOSE bit \in memory : bit >= offset /\ \A other \in memory : other >= offset => bit <= other

decode_delta(zone, entry) ==
    LET delta_offset == get_delta_entry_offset(zone, entry) + zone.value_bits
    IN  With(get_field(zone.memory, delta_offset, zone.min_bits), LAMBDA low :
        With(IF low >= zone.min_keys
             THEN first_one(zone.memory, delta_offset + zone.min_bits) - delta_offset + 1
             ELSE zone.min_bits, LAMBDA key_bits :
        With(IF low >= zone.min_keys
             THEN low + (key_bits - zone.min_bits - 1) * zone.incr_keys
             ELSE low, LAMBDA delta :
        With(delta = 0 /\ entry.offset > 0, LAMBDA is_collision :
             [entry EXCEPT !.delta = delta,
                           !.key = entry.key + delta,
                           !.is_collision = is_collision,
                           !.entry_bits = zone.value_bits + key_bits
                                          + (IF is_collision THEN COLLISION_BITS ELSE 0)]))))

\* encode_delta: the memory after writing the delta of the entry, and the
\* number of bits it wrote.
encode_delta(zone, entry) ==
    LET offset == get_delta_entry_offset(zone, entry) + zone.value_bits
        temp == entry.delta - zone.min_keys
        t1 == (temp % zone.incr_keys) + zone.min_keys
        t2 == temp \div zone.incr_keys
    IN  IF entry.delta < zone.min_keys
        THEN [memory |-> set_field(entry.delta, zone.memory, offset, zone.min_bits),
              bits |-> zone.min_bits]
        ELSE [memory |-> set_field(1,
                                   set_zero(set_field(t1, zone.memory, offset, zone.min_bits),
                                            offset + zone.min_bits, t2),
                                   offset + zone.min_bits + t2, 1),
              bits |-> zone.min_bits + t2 + 1]

\* An encode_entry that writes the delta and not the value.
encode_entry_without_value(zone, entry, value) == encode_delta(zone, entry).memory

\* encode_entry without a name: the value, then the delta.
encode_entry(zone, entry, value) ==
    encode_delta([zone EXCEPT !.memory = set_field(value, zone.memory,
                                                   get_delta_entry_offset(zone, entry),
                                                   zone.value_bits)],
                 entry).memory

get_delta_entry_value(zone, entry) ==
    get_field(zone.memory, get_delta_entry_offset(zone, entry), zone.value_bits)

\* ------------------------------------------------- the code on its own

\* The largest mean delta the coding constants are computed for.
MaxMeanDelta == 24
\* The largest delta that is encoded and decoded.
MaxDelta == 70
\* The largest number of value bits of an entry.
MaxValueBits == 2

\* The index core is not there when the delta index is run on its own.
NoIndex ==
    /\ zone_count = 1 /\ geometry = <<>> /\ zones = <<>> /\ chapters = <<>>
    /\ zone_queues = <<>> /\ zone_pc = <<>> /\ zone_request = <<>> /\ writer = <<>>
    /\ index = <<>> /\ volume_index = <<>> /\ volume = <<>> /\ sparse_cache = <<>>
    /\ parked = {} /\ workload = <<>> /\ submitted = 0 /\ callbacks = <<>>
    /\ last_callback = <<>> /\ announcements = <<>> /\ forgotten = <<>>
    /\ committed = <<>> /\ overflowed = {} /\ overflows = 0

\* The entry start_delta_index_search leaves: before the first entry of a list.
NewEntry(list_number) ==
    [list_number |-> list_number, key |-> 0, offset |-> 0, delta |-> 0, entry_bits |-> 0,
     at_end |-> FALSE, is_collision |-> FALSE, list_overflow |-> FALSE]

\* The bits of memory a single entry is encoded in.
CodecBits == 0..(BITS_PER_BYTE + MaxValueBits + MaxDelta + U32_BITS)

\* One entry's worth of zone: the coding constants of a mean delta, and a list
\* that starts at some bit of the first byte of a memory that is all zero or
\* all one.
InitCodec ==
    /\ NoIndex /\ NoRest
    /\ \E mean_delta \in 1..MaxMeanDelta, value_bits \in 0..MaxValueBits,
          start \in 0..(BITS_PER_BYTE - 1), memory \in {{}, CodecBits} :
           delta_zone = [mean_delta |-> mean_delta,
                         incr_keys |-> compute_coding_constants(mean_delta).incr_keys,
                         min_bits |-> compute_coding_constants(mean_delta).min_bits,
                         min_keys |-> compute_coding_constants(mean_delta).min_keys,
                         value_bits |-> value_bits,
                         delta_lists |-> [list \in {1} |-> [start |-> start, size |-> 0]],
                         memory |-> memory]
    /\ delta_entry = NewEntry(0)
    /\ delta_op = [op |-> "init"]

\* set_delta and encode_delta of a delta, as put_delta_index_entry calls them.
EncodeDelta(delta) ==
    /\ delta_op.op = "init"
    /\ delta_entry' = set_delta(delta_zone, delta_entry, delta)
    /\ delta_zone' = [delta_zone EXCEPT !.memory = encode_delta(delta_zone, delta_entry').memory]
    /\ delta_op' = [op |-> "encode", delta |-> delta,
                    bits |-> encode_delta(delta_zone, delta_entry').bits]
    /\ UNCHANGED <<index_vars, rest_vars>>

\* decode_delta of the entry at the start of the list, as next_delta_index_entry
\* calls it.
DecodeDelta ==
    /\ delta_op.op = "encode"
    /\ delta_entry' = decode_delta(delta_zone, NewEntry(0))
    /\ delta_op' = [op |-> "decode", delta |-> delta_op.delta, bits |-> delta_op.bits,
                    entry_bits |-> delta_entry.entry_bits]
    /\ UNCHANGED <<delta_zone, index_vars, rest_vars>>

NextCodec ==
    \/ \E delta \in 0..MaxDelta : EncodeDelta(delta)
    \/ DecodeDelta

SpecCodec == InitCodec /\ [][NextCodec]_vars

\* ------------------------------------------------------------ claims: the code

\* r is ln(2) * m rounded to the nearest integer: 25469/36744 < ln(2) <
\* 7050/10171, so r - 1/2 < (25469/36744) * m and (7050/10171) * m < r + 1/2
\* put ln(2) * m strictly between r - 1/2 and r + 1/2.
RoundsLn2(m, r) ==
    /\ (2 * r - 1) * 36744 < 2 * 25469 * m
    /\ 2 * 7050 * m < (2 * r + 1) * 10171

\* C17: for every mean delta, incr_keys is ln(2) * mean_delta rounded to the
\* nearest integer, min_bits is the smallest number of bits with
\* 2^min_bits > incr_keys, and min_keys = 2^min_bits - incr_keys.
CodingConstantsAsDocumented ==
    /\ RoundsLn2(delta_zone.mean_delta, delta_zone.incr_keys)
    /\ 2^delta_zone.min_bits > delta_zone.incr_keys
    /\ \A bits \in 0..(delta_zone.min_bits - 1) : 2^bits <= delta_zone.incr_keys
    /\ delta_zone.min_keys = 2^delta_zone.min_bits - delta_zone.incr_keys

\* What compute_coding_constants does give: the rounding and min_keys are as
\* documented, and min_bits is the smallest number of bits, at least one, with
\* 2^min_bits > incr_keys + 1.
CodingConstantsAsComputed ==
    /\ RoundsLn2(delta_zone.mean_delta, delta_zone.incr_keys)
    /\ delta_zone.min_bits >= 1
    /\ 2^delta_zone.min_bits > delta_zone.incr_keys + 1
    /\ \A bits \in 1..(delta_zone.min_bits - 1) : 2^bits <= delta_zone.incr_keys + 1
    /\ delta_zone.min_keys = 2^delta_zone.min_bits - delta_zone.incr_keys

\* A mean delta whose incr_keys + 1 is a power of two: min_bits is one more
\* than the smallest, and min_keys is above incr_keys.
MinBitsAboveSmallest ==
    /\ 2^(delta_zone.min_bits - 1) > delta_zone.incr_keys
    /\ delta_zone.min_keys > delta_zone.incr_keys

\* C15: for every delta up to MaxDelta and the coding constants of every mean
\* delta up to MaxMeanDelta, decode_delta of the bits encode_delta wrote gives
\* back the delta, and takes the key to be as many bits as encode_delta wrote.
DecodeInvertsEncode ==
    delta_op.op = "decode" =>
        /\ delta_entry.delta = delta_op.delta
        /\ delta_entry.key = delta_op.delta
        /\ ~delta_entry.is_collision
        /\ delta_entry.entry_bits = delta_zone.value_bits + delta_op.bits

\* A delta whose code runs over more than one u32 was decoded from a memory
\* that held ones before it was written.
LongDeltaDecoded ==
    /\ delta_op.op = "decode"
    /\ delta_op.bits > 2 * U32_BITS
    /\ delta_zone.delta_lists[1].start > 0
    /\ 0 \in delta_zone.memory
    /\ delta_entry.delta = delta_op.delta

\* (delta - min_keys) / incr_keys rounded up.
CeilingSteps(zone, delta) ==
    (delta - zone.min_keys + zone.incr_keys - 1) \div zone.incr_keys

CodeBits(zone, delta) ==
    zone.min_bits + (IF delta < zone.min_keys
                     THEN 0
                     ELSE 1 + (delta - zone.min_keys) \div zone.incr_keys)

SetDeltaWrapped ==
    /\ delta_op.op = "decode"
    /\ delta_op.delta < delta_zone.min_keys - delta_zone.incr_keys
    /\ delta_op.entry_bits # delta_entry.entry_bits

\* ------------------------------------------------------------ the delta zone

UDS_CORRUPT_DATA == "UDS_CORRUPT_DATA"
UDS_BAD_STATE == "UDS_BAD_STATE"
UDS_DUPLICATE_NAME == "UDS_DUPLICATE_NAME"
UDS_ASSERTION_FAILED == "UDS_ASSERTION_FAILED"

BITS_TO_BYTES(bits) == (bits + BITS_PER_BYTE - 1) \div BITS_PER_BYTE

get_delta_list_byte_start(delta_list) == delta_list.start \div BITS_PER_BYTE

get_delta_list_byte_size(delta_list) ==
    BITS_TO_BYTES((delta_list.start % BITS_PER_BYTE) + delta_list.size)

\* memmove of count bytes.
memmove(memory, destination, source, count) ==
    (memory \ Field(destination * BITS_PER_BYTE, count * BITS_PER_BYTE))
        \cup {bit + (destination - source) * BITS_PER_BYTE :
                  bit \in {b \in memory : b \in Field(source * BITS_PER_BYTE,
                                                      count * BITS_PER_BYTE)}}

\* initialize_delta_zone followed by reset_delta_index: the lists are empty
\* and evenly spaced, the memory is zero but for the tail guard.
initialize_delta_zone(size, list_count, mean_delta, payload_bits) ==
    LET list_bits == size * BITS_PER_BYTE - GUARD_BITS
        spacing == list_bits \div list_count
    IN  [mean_delta |-> mean_delta,
         incr_keys |-> compute_coding_constants(mean_delta).incr_keys,
         min_bits |-> compute_coding_constants(mean_delta).min_bits,
         min_keys |-> compute_coding_constants(mean_delta).min_keys,
         value_bits |-> payload_bits,
         size |-> size,
         list_count |-> list_count,
         delta_lists |-> [i \in 0..(list_count + 1) |->
                             [start |-> IF i = 0 THEN 0
                                        ELSE IF i = list_count + 1 THEN list_bits
                                        ELSE spacing \div 2 + (i - 1) * spacing,
                              size |-> IF i = list_count + 1 THEN GUARD_BITS ELSE 0,
                              save_key |-> 0,
                              save_offset |-> 0]],
         memory |-> Field(list_bits, POST_FIELD_GUARD_BYTES * BITS_PER_BYTE),
         rebalance_count |-> 0,
         record_count |-> 0,
         collision_count |-> 0,
         discard_count |-> 0,
         overflow_count |-> 0]

\* The byte offsets compute_new_list_offsets gives the lists 0 .. i, before
\* they are turned into bit offsets.
RECURSIVE new_byte_offset(_, _, _, _, _)
new_byte_offset(zone, growing_index, growing_size, spacing, i) ==
    IF i = 0
    THEN 0
    ELSE new_byte_offset(zone, growing_index, growing_size, spacing, i - 1)
         + get_delta_list_byte_size(zone.delta_lists[i - 1]) + spacing
         - (IF i = 1 THEN spacing \div 2 ELSE 0)
         + (IF i = growing_index THEN growing_size ELSE 0)

\* compute_new_list_offsets without the bit offset of the lists' starts.
compute_new_list_offsets_of_bytes(zone, growing_index, growing_size, used_space) ==
    LET spacing == (zone.size - used_space) \div zone.list_count
        tail_guard_index == zone.list_count + 1
    IN  [i \in 0..tail_guard_index |->
            IF i = tail_guard_index
            THEN zone.size * BITS_PER_BYTE - zone.delta_lists[tail_guard_index].size
            ELSE new_byte_offset(zone, growing_index, growing_size, spacing, i) * BITS_PER_BYTE]

compute_new_list_offsets(zone, growing_index, growing_size, used_space) ==
    LET spacing == (zone.size - used_space) \div zone.list_count
        tail_guard_index == zone.list_count + 1
    IN  [i \in 0..tail_guard_index |->
            IF i = tail_guard_index
            THEN zone.size * BITS_PER_BYTE - zone.delta_lists[tail_guard_index].size
            ELSE new_byte_offset(zone, growing_index, growing_size, spacing, i) * BITS_PER_BYTE
                 + (zone.delta_lists[i].start % BITS_PER_BYTE)]

RECURSIVE rebalance_delta_zone(_, _, _, _)
rebalance_delta_zone(zone, new_offsets, first, last) ==
    IF first = last
    THEN LET delta_list == zone.delta_lists[first]
             moved == [delta_list EXCEPT !.start = new_offsets[first]]
         IN  IF delta_list.start # new_offsets[first]
             THEN [zone EXCEPT !.delta_lists[first] = moved,
                               !.memory = memmove(zone.memory,
                                                  get_delta_list_byte_start(moved),
                                                  get_delta_list_byte_start(delta_list),
                                                  get_delta_list_byte_size(moved))]
             ELSE zone
    ELSE LET middle == (first + last) \div 2
         IN  IF new_offsets[middle] > zone.delta_lists[middle].start
             THEN rebalance_delta_zone(rebalance_delta_zone(zone, new_offsets, middle + 1, last),
                                       new_offsets, first, middle)
             ELSE rebalance_delta_zone(rebalance_delta_zone(zone, new_offsets, first, middle),
                                       new_offsets, middle + 1, last)

\* The bytes the lists, the guard lists included, take.
RECURSIVE lists_byte_size(_, _)
lists_byte_size(zone, last) ==
    get_delta_list_byte_size(zone.delta_lists[last])
    + (IF last = 0 THEN 0 ELSE lists_byte_size(zone, last - 1))

extend_delta_zone(zone, growing_index, growing_size) ==
    LET used_space == growing_size + lists_byte_size(zone, zone.list_count + 1)
        new_offsets == compute_new_list_offsets(zone, growing_index, growing_size, used_space)
        rebalanced == rebalance_delta_zone(zone, new_offsets, 1, zone.list_count + 1)
    IN  IF zone.size < used_space
        THEN [zone |-> zone, result |-> UDS_OVERFLOW]
        ELSE [zone |-> [rebalanced EXCEPT !.rebalance_count = @ + 1], result |-> UDS_SUCCESS]

\* The list header of the entry.
entry_list(zone, entry) == zone.delta_lists[entry.list_number + 1]

start_delta_index_search(zone, list_number, key) ==
    LET delta_list == zone.delta_lists[list_number + 1]
    IN  [NewEntry(list_number) EXCEPT
            !.key = IF key > delta_list.save_key THEN delta_list.save_key ELSE 0,
            !.offset = IF key > delta_list.save_key THEN delta_list.save_offset ELSE 0]

next_delta_index_entry(zone, entry) ==
    LET offset == entry.offset + entry.entry_bits
        size == entry_list(zone, entry).size
    IN  IF entry.at_end
        THEN [entry |-> entry, result |-> UDS_BAD_STATE]
        ELSE IF offset >= size
        THEN [entry |-> [entry EXCEPT !.offset = offset, !.at_end = TRUE, !.delta = 0,
                                      !.is_collision = FALSE],
              result |-> IF offset = size THEN UDS_SUCCESS ELSE UDS_CORRUPT_DATA]
        ELSE With(decode_delta(zone, [entry EXCEPT !.offset = offset]), LAMBDA decoded :
                  [entry |-> decoded,
                   result |-> IF decoded.offset + decoded.entry_bits > size
                              THEN UDS_CORRUPT_DATA
                              ELSE UDS_SUCCESS])

\* A faulty remember_delta_index_offset that saves the key of the entry
\* instead of the key before it.
remember_delta_index_offset_with_key(zone, entry) ==
    IF entry.is_collision
    THEN [zone |-> zone, result |-> UDS_ASSERTION_FAILED]
    ELSE [zone |-> [zone EXCEPT !.delta_lists[entry.list_number + 1].save_key = entry.key,
                                !.delta_lists[entry.list_number + 1].save_offset = entry.offset],
          result |-> UDS_SUCCESS]

remember_delta_index_offset(zone, entry) ==
    IF entry.is_collision
    THEN [zone |-> zone, result |-> UDS_ASSERTION_FAILED]
    ELSE [zone |-> [zone EXCEPT !.delta_lists[entry.list_number + 1].save_key =
                                    entry.key - entry.delta,
                                !.delta_lists[entry.list_number + 1].save_offset = entry.offset],
          result |-> UDS_SUCCESS]

\* The loop of get_delta_index_entry: step to the first entry whose key is
\* not below the key looked for, or to the end of the list.
RECURSIVE search_delta_list(_, _, _)
search_delta_list(zone, entry, key) ==
    With(next_delta_index_entry(zone, entry), LAMBDA next :
         IF next.result = UDS_SUCCESS /\ ~next.entry.at_end /\ key > next.entry.key
         THEN search_delta_list(zone, next.entry, key)
         ELSE next)

\* get_delta_index_entry with no name: no entry of the lists is a collision,
\* so the scan of the collisions of a key that is found ends at its first step.
get_delta_index_entry(zone, list_number, key) ==
    With(search_delta_list(zone, start_delta_index_search(zone, list_number, key), key),
         LAMBDA found :
    With(remember_delta_index_offset(zone, found.entry), LAMBDA remembered :
         IF found.result # UDS_SUCCESS
         THEN [zone |-> zone, entry |-> found.entry, result |-> found.result]
         ELSE IF remembered.result # UDS_SUCCESS
         THEN [zone |-> zone, entry |-> found.entry, result |-> remembered.result]
         ELSE [zone |-> remembered.zone,
               entry |-> found.entry,
               result |-> IF ~found.entry.at_end /\ key = found.entry.key
                          THEN next_delta_index_entry(zone, found.entry).result
                          ELSE UDS_SUCCESS]))

\* A test that lets a list grow to one bit more than U16_MAX.
list_overflows_beyond(total_size, size) ==
    total_size + size < 0 \/ total_size + size > U16_MAX + 1

\* The test (unsigned int) (total_size + size) > U16_MAX of insert_bits.
list_overflows(total_size, size) ==
    total_size + size < 0 \/ total_size + size > U16_MAX

insert_bits(zone, entry, size) ==
    LET list_index == entry.list_number + 1
        delta_list == zone.delta_lists[list_index]
        previous == zone.delta_lists[list_index - 1]
        following == zone.delta_lists[list_index + 1]
        total_size == delta_list.size
        before_size == entry.offset
        after_size == total_size - entry.offset
    IN  With(delta_list.start - (previous.start + previous.size), LAMBDA free_before :
        With(following.start - (delta_list.start + delta_list.size), LAMBDA free_after :
        With(IF size <= free_before /\ size <= free_after
             THEN IF before_size < after_size THEN TRUE
                  ELSE IF after_size < before_size THEN FALSE
                  ELSE free_before > free_after
             ELSE IF size <= free_before THEN TRUE
             ELSE IF size <= free_after THEN FALSE
             ELSE before_size < after_size, LAMBDA before_flag :
        With(IF size <= free_before \/ size <= free_after
             THEN [zone |-> zone, result |-> UDS_SUCCESS]
             ELSE extend_delta_zone(zone, IF before_flag THEN list_index ELSE list_index + 1,
                                    BITS_TO_BYTES(size)), LAMBDA extended :
        With(IF before_flag
             THEN extended.zone.delta_lists[list_index].start
             ELSE extended.zone.delta_lists[list_index].start + entry.offset, LAMBDA source :
             IF list_overflows(total_size, size)
             THEN [zone |-> [zone EXCEPT !.overflow_count = @ + 1],
                   entry |-> [entry EXCEPT !.list_overflow = TRUE],
                   result |-> UDS_OVERFLOW]
             ELSE IF extended.result # UDS_SUCCESS
             THEN [zone |-> extended.zone, entry |-> entry, result |-> extended.result]
             ELSE [zone |-> [extended.zone EXCEPT
                                !.delta_lists[list_index].size = @ + size,
                                !.delta_lists[list_index].start =
                                    IF before_flag THEN @ - size ELSE @,
                                !.memory = move_bits(@, source,
                                                     IF before_flag THEN source - size
                                                     ELSE source + size,
                                                     IF before_flag THEN before_size
                                                     ELSE after_size)],
                   entry |-> entry,
                   result |-> UDS_SUCCESS])))))

\* put_delta_index_entry with no name.
put_delta_index_entry(zone, entry, key, value) ==
    With(IF entry.offset < entry_list(zone, entry).save_offset
         THEN remember_delta_index_offset(zone, entry)
         ELSE [zone |-> zone, result |-> UDS_SUCCESS], LAMBDA remembered :
         IF entry.is_collision
         THEN [zone |-> zone, entry |-> entry, result |-> UDS_DUPLICATE_NAME]
         ELSE IF remembered.result # UDS_SUCCESS
         THEN [zone |-> zone, entry |-> entry, result |-> remembered.result]
         ELSE IF \/ entry.at_end /\ key < entry.key
                 \/ ~entry.at_end /\ (key >= entry.key \/ key < entry.key - entry.delta)
         THEN [zone |-> remembered.zone, entry |-> entry, result |-> UDS_ASSERTION_FAILED]
         ELSE With(IF entry.at_end
                   THEN \* at the end of the list
                        With([set_delta(zone, entry, key - entry.key) EXCEPT
                                 !.key = key, !.at_end = FALSE], LAMBDA last :
                             insert_bits(remembered.zone, last, last.entry_bits))
                   ELSE \* before an entry, whose delta changes
                        With([set_delta(zone, entry, key - (entry.key - entry.delta)) EXCEPT
                                 !.key = key], LAMBDA new :
                        With([set_delta(zone, entry, entry.key - key) EXCEPT
                                 !.offset = entry.offset + new.entry_bits], LAMBDA next_entry :
                        With(insert_bits(remembered.zone, new,
                                         new.entry_bits + next_entry.entry_bits
                                         - entry.entry_bits), LAMBDA inserted :
                             IF inserted.result # UDS_SUCCESS
                             THEN inserted
                             ELSE [inserted EXCEPT
                                      !.zone.memory =
                                          encode_entry(inserted.zone, next_entry,
                                                       get_delta_entry_value(remembered.zone,
                                                                             entry))]))),
                   LAMBDA made :
                       IF made.result # UDS_SUCCESS
                       THEN made
                       ELSE [zone |-> [made.zone EXCEPT
                                          !.memory = encode_entry(made.zone, made.entry, value),
                                          !.record_count = @ + 1],
                             entry |-> made.entry,
                             result |-> UDS_SUCCESS]))

delete_bits(zone, entry, size) ==
    LET list_index == entry.list_number + 1
        delta_list == zone.delta_lists[list_index]
        previous == zone.delta_lists[list_index - 1]
        following == zone.delta_lists[list_index + 1]
        before_size == entry.offset
        after_size == delta_list.size - entry.offset - size
        free_before == delta_list.start - (previous.start + previous.size)
        free_after == following.start - (delta_list.start + delta_list.size)
        before_flag == IF before_size < after_size THEN TRUE
                       ELSE IF after_size < before_size THEN FALSE
                       ELSE free_before < free_after
        source == IF before_flag THEN delta_list.start
                  ELSE delta_list.start + entry.offset + size
        destination == IF before_flag THEN delta_list.start + size
                       ELSE delta_list.start + entry.offset
        count == IF before_flag THEN before_size ELSE after_size
    IN  [zone EXCEPT !.delta_lists[list_index].size = @ - size,
                     !.delta_lists[list_index].start = IF before_flag THEN @ + size ELSE @,
                     !.memory = move_bits(@, source, destination, count)]

remove_delta_index_entry(zone, entry) ==
    With(next_delta_index_entry(zone, entry), LAMBDA next :
         IF next.result # UDS_SUCCESS
         THEN [zone |-> zone, entry |-> entry, result |-> next.result]
         ELSE With(IF entry.is_collision
                   THEN \* a collision entry
                        [zone |-> [delete_bits(zone, entry, entry.entry_bits) EXCEPT
                                      !.collision_count = @ - 1],
                         entry |-> [next.entry EXCEPT !.offset = entry.offset]]
                   ELSE IF next.entry.at_end
                   THEN \* the last entry of the list
                        [zone |-> delete_bits(zone, entry, entry.entry_bits),
                         entry |-> [next.entry EXCEPT !.key = @ - entry.delta,
                                                      !.offset = entry.offset]]
                   ELSE \* an entry before another, whose delta changes
                        With([set_delta(zone, next.entry, entry.delta + next.entry.delta) EXCEPT
                                 !.is_collision = FALSE, !.offset = entry.offset],
                             LAMBDA merged :
                        With(delete_bits(zone, entry, entry.entry_bits + next.entry.entry_bits
                                                      - merged.entry_bits), LAMBDA deleted :
                             [zone |-> [deleted EXCEPT
                                           !.memory =
                                               encode_entry(deleted, merged,
                                                            get_delta_entry_value(zone,
                                                                                  next.entry)),
                                           !.collision_count =
                                               IF next.entry.is_collision THEN @ - 1 ELSE @],
                              entry |-> merged])),
                   LAMBDA removed :
              With([removed.zone EXCEPT !.record_count = @ - 1, !.discard_count = @ + 1],
                   LAMBDA counted :
                   [zone |-> IF removed.entry.offset
                                    < counted.delta_lists[entry.list_number + 1].save_offset
                             THEN [counted EXCEPT
                                      !.delta_lists[entry.list_number + 1].save_key = 0,
                                      !.delta_lists[entry.list_number + 1].save_offset = 0]
                             ELSE counted,
                    entry |-> removed.entry,
                    result |-> UDS_SUCCESS])))

\* ------------------------------------------------- a delta zone on its own

\* The bytes of memory of the delta zone.
ZoneBytes == 12
\* The number of delta lists of the zone.
ListCount == 2
\* The number of bits of the value of an entry.
PayloadBits == 1
\* The number of calls the caller makes.
MaxOps == 4

\* The mean deltas of the zones: 1 gives the coding constants incr_keys = 1,
\* min_bits = 2, min_keys = 3, and 3 gives incr_keys = 2, min_bits = 2,
\* min_keys = 2.
ZoneMeanDeltas == {1, 3}

\* The keys the caller uses: deltas of one, deltas of a few steps, and a
\* delta whose code takes more than two bytes.
Keys == {3, 10, 11, 40}

\* The size of a zone whose lists can grow to U16_MAX bits, and the keys its
\* caller uses: alone in a list their entries take 30003, 65535 and 65536
\* bits with a mean delta of 3.
LongZoneBytes == 16391

LongKeys == {60000, 131064, 131066}

\* The keys the caller of a zone uses.
ZoneKeys(zone) == IF zone.size = ZoneBytes THEN Keys ELSE LongKeys

\* The values of the entries.
Values == 0..(2^PayloadBits - 1)

InitZone ==
    /\ NoIndex /\ NoRest
    /\ \E mean_delta \in ZoneMeanDeltas :
           delta_zone = initialize_delta_zone(ZoneBytes, ListCount, mean_delta, PayloadBits)
    /\ delta_entry = NewEntry(0)
    /\ delta_op = [op |-> "init", count |-> 0, last_removed |-> <<>>]

\* Whether a search ended at an entry with the key.
was_entry_found(got, key) ==
    got.result = UDS_SUCCESS /\ ~got.entry.at_end /\ got.entry.key = key

\* The caller looks a key up.
GetEntry(list_number, key) ==
    \E got \in {get_delta_index_entry(delta_zone, list_number, key)} :
        /\ delta_op.count < MaxOps
        /\ delta_zone' = got.zone
        /\ delta_entry' = got.entry
        /\ delta_op' = [op |-> "get", list_number |-> list_number, key |-> key,
                        result |-> got.result, count |-> delta_op.count + 1,
                        last_removed |-> delta_op.last_removed]
        /\ UNCHANGED <<index_vars, rest_vars>>

\* The caller looks a key up, does not find it, and puts an entry for it.
PutEntry(list_number, key, value) ==
    \E got \in {get_delta_index_entry(delta_zone, list_number, key)} :
        /\ delta_op.count < MaxOps
        /\ got.result = UDS_SUCCESS
        /\ ~was_entry_found(got, key)
        /\ \E put \in {put_delta_index_entry(got.zone, got.entry, key, value)} :
               /\ delta_zone' = put.zone
               /\ delta_entry' = put.entry
               /\ delta_op' = [op |-> "put", list_number |-> list_number, key |-> key,
                               value |-> value, result |-> put.result,
                               count |-> delta_op.count + 1,
                               last_removed |-> delta_op.last_removed]
        /\ UNCHANGED <<index_vars, rest_vars>>

\* The caller looks a key up, finds it, and removes its entry.
RemoveEntry(list_number, key) ==
    \E got \in {get_delta_index_entry(delta_zone, list_number, key)} :
        /\ delta_op.count < MaxOps
        /\ was_entry_found(got, key)
        /\ \E removed \in {remove_delta_index_entry(got.zone, got.entry)} :
               /\ delta_zone' = removed.zone
               /\ delta_entry' = removed.entry
               /\ delta_op' = [op |-> "remove", list_number |-> list_number, key |-> key,
                               result |-> removed.result, count |-> delta_op.count + 1,
                               last_removed |-> <<list_number, key,
                                                  get_delta_entry_value(got.zone, got.entry)>>]
        /\ UNCHANGED <<index_vars, rest_vars>>

NextZone ==
    \/ \E list_number \in 0..(ListCount - 1), key \in ZoneKeys(delta_zone) :
           GetEntry(list_number, key)
    \/ \E list_number \in 0..(ListCount - 1), key \in ZoneKeys(delta_zone), value \in Values :
           PutEntry(list_number, key, value)
    \/ \E list_number \in 0..(ListCount - 1), key \in ZoneKeys(delta_zone) :
           RemoveEntry(list_number, key)

SpecZone == InitZone /\ [][NextZone]_vars

\* A zone with room for lists of U16_MAX bits.
InitLongLists ==
    /\ NoIndex /\ NoRest
    /\ \E mean_delta \in ZoneMeanDeltas :
           delta_zone = initialize_delta_zone(LongZoneBytes, ListCount, mean_delta, PayloadBits)
    /\ delta_entry = NewEntry(0)
    /\ delta_op = [op |-> "init", count |-> 0, last_removed |-> <<>>]

SpecLongLists == InitLongLists /\ [][NextZone]_vars

\* ---------------------------------------------------- claims: the delta zone

\* What a search for the key in the list of the zone answers: the value of
\* the entry found, or that there is none, or the error.
Lookup(zone, list_number, key) ==
    LET got == get_delta_index_entry(zone, list_number, key)
    IN  IF was_entry_found(got, key)
        THEN <<"found", key, get_delta_entry_value(got.zone, got.entry)>>
        ELSE IF got.result = UDS_SUCCESS
        THEN <<"not found">>
        ELSE <<got.result>>

\* The call just made left the entries of every other list and key as a
\* search finds them.
OtherEntriesUnaffected ==
    \A list_number \in 0..(ListCount - 1), key \in Keys :
        list_number # delta_op'.list_number \/ key # delta_op'.key
            => Lookup(delta_zone', list_number, key) = Lookup(delta_zone, list_number, key)

\* What C14 says of a step.
InsertSearchRemoveStep ==
    /\ delta_op'.op = "put" /\ delta_op'.result = UDS_SUCCESS
         => /\ Lookup(delta_zone', delta_op'.list_number, delta_op'.key)
                   = <<"found", delta_op'.key, delta_op'.value>>
            /\ OtherEntriesUnaffected
    /\ delta_op'.op = "remove"
         => /\ delta_op'.result = UDS_SUCCESS
            /\ Lookup(delta_zone', delta_op'.list_number, delta_op'.key) = <<"not found">>
            /\ OtherEntriesUnaffected
    /\ delta_op'.op = "get"
         => \A list_number \in 0..(ListCount - 1), key \in Keys :
                Lookup(delta_zone', list_number, key) = Lookup(delta_zone, list_number, key)

\* C14: after an entry for key k with value v is put in a list, a search of
\* the list for k finds k with v, also when an entry for k was removed before;
\* after the entry for k is removed, a search for k finds nothing; and either
\* way a search for any other key answers what it answered before.
InsertSearchRemove ==
    [][InsertSearchRemoveStep]_vars

\* The same for the zones whose coding constants have min_keys <= incr_keys,
\* where set_delta's subtraction cannot wrap around.
InsertSearchRemoveWithoutWrap ==
    [][delta_zone.min_keys <= delta_zone.incr_keys => InsertSearchRemoveStep]_vars

\* An entry with a delta below min_keys - incr_keys was put, and the search
\* for its key fails.
SearchFailsAfterPut ==
    /\ delta_op.op = "put" /\ delta_op.result = UDS_SUCCESS
    /\ delta_entry.delta < delta_zone.min_keys - delta_zone.incr_keys
    /\ Lookup(delta_zone, delta_op.list_number, delta_op.key) = <<UDS_CORRUPT_DATA>>

\* An entry was put for a key whose entry, with another value, had been
\* removed, in a list that holds an entry after it, whose delta the put
\* rewrote; the search finds the new value.
PutAgainAfterRemove ==
    /\ delta_op.op = "put" /\ delta_op.result = UDS_SUCCESS
    /\ delta_op.last_removed = <<delta_op.list_number, delta_op.key, 1 - delta_op.value>>
    /\ Lookup(delta_zone, delta_op.list_number, delta_op.key)
           = <<"found", delta_op.key, delta_op.value>>
    /\ \E after \in Keys :
           /\ delta_op.key < after
           /\ Lookup(delta_zone, delta_op.list_number, after)[1] = "found"

\* What C20 says of a zone.
ZoneLayout(zone) ==
    LET lists == zone.delta_lists
        tail == zone.list_count + 1
    IN  /\ \A i \in 0..tail : lists[i].size <= U16_MAX
        /\ \A i \in 0..(tail - 1) : lists[i].start + lists[i].size <= lists[i + 1].start
        /\ \A i \in 0..tail :
               /\ 0 <= lists[i].start
               /\ lists[i].start + lists[i].size <= zone.size * BITS_PER_BYTE
        /\ lists[tail].size = GUARD_BITS
        /\ lists[tail].start + GUARD_BITS = zone.size * BITS_PER_BYTE
        /\ Field(lists[tail].start, GUARD_BITS) \subseteq zone.memory

\* C20: in every state of a zone each list is at most U16_MAX bits long, the
\* lists, guard lists included, lie in memory in the order of their numbers
\* without overlapping, every list lies inside the zone's memory, and the
\* tail guard list is the last GUARD_BITS bits of the memory, all of them one.
ZoneLayoutKept ==
    delta_op.op \in {"init", "get", "put", "remove"} => ZoneLayout(delta_zone)

\* The same for the zones whose coding constants have min_keys <= incr_keys.
ZoneLayoutKeptWithoutWrap ==
    delta_zone.min_keys <= delta_zone.incr_keys => ZoneLayoutKept

\* A put of an entry with a delta of one, at the end of the last list, has
\* cleared the first bit of the tail guard list.
TailGuardBitCleared ==
    /\ delta_op.op = "put" /\ delta_op.result = UDS_SUCCESS
    /\ delta_op.list_number = delta_zone.list_count - 1
    /\ delta_entry.delta < delta_zone.min_keys - delta_zone.incr_keys
    /\ delta_zone.delta_lists[delta_zone.list_count + 1].start \notin delta_zone.memory

\* A zone that was rebalanced twice and holds entries in both of its lists
\* after a removal.
RebalancedZoneWithEntries ==
    /\ delta_op.op = "remove"
    /\ delta_zone.rebalance_count >= 2
    /\ delta_zone.min_keys <= delta_zone.incr_keys
    /\ \A i \in 1..delta_zone.list_count : delta_zone.delta_lists[i].size > 0

\* The bits of a list, counted from the start of the list.
list_bits(zone, i) ==
    LET delta_list == zone.delta_lists[i]
    IN  {bit - delta_list.start : bit \in Field(delta_list.start, delta_list.size) \cap zone.memory}

\* The entries a walk over a list decodes, from the entry on.
RECURSIVE list_entries(_, _)
list_entries(zone, entry) ==
    LET next == next_delta_index_entry(zone, entry)
    IN  IF next.result # UDS_SUCCESS
        THEN <<next.result>>
        ELSE IF next.entry.at_end
        THEN <<>>
        ELSE <<<<next.entry.key, get_delta_entry_value(zone, next.entry)>>>>
             \o list_entries(zone, next.entry)

\* The sizes by which a list is asked to grow, in bytes.
MaxGrowingSize == 3

\* What C18 says of a zone and the zone extend_delta_zone made of it.
RebalancePreserves(zone, extended, growing_index, growing_size) ==
    LET tail == zone.list_count + 1
        old == zone.delta_lists
        new == extended.delta_lists
    IN  /\ \A i \in 0..tail :
               /\ new[i].size = old[i].size
               /\ new[i].start % BITS_PER_BYTE = old[i].start % BITS_PER_BYTE
               /\ list_bits(extended, i) = list_bits(zone, i)
        /\ \A list_number \in 0..(zone.list_count - 1) :
               list_entries(extended, NewEntry(list_number))
                   = list_entries(zone, NewEntry(list_number))
        /\ \A i \in 0..(tail - 1) : new[i].start + new[i].size <= new[i + 1].start
        /\ new[growing_index].start
               - (new[growing_index - 1].start + new[growing_index - 1].size)
                   >= growing_size * BITS_PER_BYTE

\* C18: when extend_delta_zone rebalances a zone, every list keeps its
\* entries, its size in bits, the bit offset of its start in its byte and its
\* bits; the lists stay in order without overlapping; and at least
\* growing_size bytes are free just before the list growing_index.  It is
\* stated of the zones a put or a remove leaves (a search changes no list).
RebalanceKeepsLists ==
    delta_op.op \in {"init", "put", "remove"} =>
        \A growing_index \in 1..(delta_zone.list_count + 1), growing_size \in 0..MaxGrowingSize :
            LET extended == extend_delta_zone(delta_zone, growing_index, growing_size)
            IN  extended.result = UDS_SUCCESS
                    => RebalancePreserves(delta_zone, extended.zone, growing_index, growing_size)

\* A zone whose two lists hold entries and begin inside a byte, and which a
\* rebalance that makes room before the second list changes: both lists move.
RebalanceMovesLists ==
    /\ delta_op.op = "put"
    /\ delta_zone.min_keys <= delta_zone.incr_keys
    /\ \A i \in 1..delta_zone.list_count :
           /\ Len(list_entries(delta_zone, NewEntry(i - 1))) >= 2
           /\ delta_zone.delta_lists[i].start % BITS_PER_BYTE # 0
    /\ LET extended == extend_delta_zone(delta_zone, 2, 1)
       IN  /\ extended.result = UDS_SUCCESS
           /\ \A i \in 1..delta_zone.list_count :
                  extended.zone.delta_lists[i].start # delta_zone.delta_lists[i].start

\* The bits an entry for the key would add to a list: its own value and
\* code, and the change of the code of the entry that follows it.
added_bits(zone, list_number, key) ==
    LET entries == list_entries(zone, NewEntry(list_number))
        keys == {entries[n][1] : n \in 1..Len(entries)}
        before == {k \in keys : k < key}
        after == {k \in keys : k > key}
        previous == IF before = {} THEN 0 ELSE CHOOSE k \in before : \A other \in before : other <= k
        following == CHOOSE k \in after : \A other \in after : k <= other
    IN  zone.value_bits + CodeBits(zone, key - previous)
        + (IF after = {}
           THEN 0
           ELSE CodeBits(zone, following - key) - CodeBits(zone, following - previous))

\* What C19 says of a step.
ListOverflowStep ==
    LET list_index == delta_op'.list_number + 1
    IN  /\ delta_op'.op = "put"
        /\ delta_zone.delta_lists[list_index].size
               + added_bits(delta_zone, delta_op'.list_number, delta_op'.key) > U16_MAX
        => /\ delta_op'.result = UDS_OVERFLOW
           /\ delta_zone'.overflow_count = delta_zone.overflow_count + 1
           /\ delta_zone'.delta_lists[list_index].size = delta_zone.delta_lists[list_index].size
           /\ delta_zone'.delta_lists[list_index].start = delta_zone.delta_lists[list_index].start
           /\ list_bits(delta_zone', list_index) = list_bits(delta_zone, list_index)
           /\ list_entries(delta_zone', NewEntry(delta_op'.list_number))
                  = list_entries(delta_zone, NewEntry(delta_op'.list_number))
           /\ delta_zone'.record_count = delta_zone.record_count
           /\ delta_zone'.collision_count = delta_zone.collision_count

\* C19: a put of an entry that would make its list longer than U16_MAX bits
\* returns UDS_OVERFLOW, adds one to the zone's overflow_count, and leaves
\* the list's size and bits and the zone's record_count and collision_count
\* as they were.
ListOverflowReported ==
    [][ListOverflowStep]_vars

\* A put before the entry of a list of exactly U16_MAX bits was refused.
FullListRefusedEntry ==
    /\ delta_op.op = "put" /\ delta_op.result = UDS_OVERFLOW
    /\ delta_entry.list_overflow
    /\ delta_zone.overflow_count > 0
    /\ delta_zone.delta_lists[delta_op.list_number + 1].size = U16_MAX
    /\ Len(list_entries(delta_zone, NewEntry(delta_op.list_number))) = 1
    /\ list_entries(delta_zone, NewEntry(delta_op.list_number))[1][1] > delta_op.key

\* ------------------------------------------------------ chapter index pages

IMMUTABLE_HEADER_SIZE == 19

\* sizeof(struct delta_page_header), a packed struct: nonce and
\* virtual_chapter_number are u64, first_list and list_count are u16.
DELTA_PAGE_HEADER_BYTES == 20

\* The byte offsets of the fields of struct delta_page_header.
delta_page_header == [nonce |-> 0, virtual_chapter_number |-> 8, first_list |-> 16,
                      list_count |-> 18]

\* A u64 or a u16 is held as the tuple of its bytes, the least significant
\* first, so that no 64-bit value has to fit an integer of the model.
u16_bytes(n) == <<n % 256, (n \div 256) % 256>>
u16_number(bytes) == bytes[1] + 256 * bytes[2]
u64_bytes(n) == <<n % 256, (n \div 256) % 256, 0, 0, 0, 0, 0, 0>>

\* get_unaligned_le16/le64 and get_unaligned_be16/be64: the value whose bytes
\* are the count bytes at addr, read in the one byte order or the other.
get_unaligned(memory, addr, count, big_endian) ==
    [k \in 1..count |->
        FieldValue(memory,
                   (addr + (IF big_endian THEN count - k ELSE k - 1)) * BITS_PER_BYTE,
                   BITS_PER_BYTE)]

\* put_unaligned_le16/le64 and put_unaligned_be16/be64.
put_unaligned(value, memory, addr, big_endian) ==
    (memory \ Field(addr * BITS_PER_BYTE, Len(value) * BITS_PER_BYTE))
        \cup {(addr + (IF big_endian THEN Len(value) - k[1] ELSE k[1] - 1)) * BITS_PER_BYTE + k[2] :
                 k \in {p \in (1..Len(value)) \X (0..(BITS_PER_BYTE - 1)) :
                           (value[p[1]] \div 2^(p[2])) % 2 = 1}}

\* The four fields of the header of a page, read in one byte order.
get_delta_page_header(memory, big_endian) ==
    [nonce |-> get_unaligned(memory, delta_page_header.nonce, 8, big_endian),
     virtual_chapter_number |->
         get_unaligned(memory, delta_page_header.virtual_chapter_number, 8, big_endian),
     first_list |-> u16_number(get_unaligned(memory, delta_page_header.first_list, 2,
                                             big_endian)),
     list_count |-> u16_number(get_unaligned(memory, delta_page_header.list_count, 2,
                                             big_endian))]

\* The four fields of the header of a page, written in one byte order.
put_delta_page_header(header, memory, big_endian) ==
    put_unaligned(u16_bytes(header.list_count),
        put_unaligned(u16_bytes(header.first_list),
            put_unaligned(header.virtual_chapter_number,
                put_unaligned(header.nonce, memory, delta_page_header.nonce, big_endian),
                delta_page_header.virtual_chapter_number, big_endian),
            delta_page_header.first_list, big_endian),
        delta_page_header.list_count, big_endian)

get_immutable_header_offset(list_number) ==
    DELTA_PAGE_HEADER_BYTES * BITS_PER_BYTE + list_number * IMMUTABLE_HEADER_SIZE

get_immutable_start(memory, list_number) ==
    get_field(memory, get_immutable_header_offset(list_number), IMMUTABLE_HEADER_SIZE)

set_immutable_start(memory, list_number, start) ==
    set_field(start, memory, get_immutable_header_offset(list_number), IMMUTABLE_HEADER_SIZE)

\* A verify_delta_index_page that does not look at the guard bytes.
verify_delta_index_page_unguarded(nonce, list_count, expected_nonce, memory, memory_size) ==
    /\ nonce = expected_nonce
    /\ list_count <= ((memory_size - DELTA_PAGE_HEADER_BYTES) * BITS_PER_BYTE)
                         \div IMMUTABLE_HEADER_SIZE
    /\ get_immutable_start(memory, 0) = get_immutable_header_offset(list_count + 1)
    /\ \A i \in 0..(list_count - 1) :
           get_immutable_start(memory, i) <= get_immutable_start(memory, i + 1)
    /\ get_immutable_start(memory, list_count)
           <= (memory_size - POST_FIELD_GUARD_BYTES) * BITS_PER_BYTE

\* verify_delta_index_page: the tests are made in this order and the first
\* that fails ends the verification, so that the offsets of the lists are
\* read only when the list count is one the page can hold.
verify_delta_index_page(nonce, list_count, expected_nonce, memory, memory_size) ==
    /\ nonce = expected_nonce
    /\ list_count <= ((memory_size - DELTA_PAGE_HEADER_BYTES) * BITS_PER_BYTE)
                         \div IMMUTABLE_HEADER_SIZE
    /\ get_immutable_start(memory, 0) = get_immutable_header_offset(list_count + 1)
    /\ \A i \in 0..(list_count - 1) :
           get_immutable_start(memory, i) <= get_immutable_start(memory, i + 1)
    /\ get_immutable_start(memory, list_count)
           <= (memory_size - POST_FIELD_GUARD_BYTES) * BITS_PER_BYTE
    /\ \A i \in 0..(POST_FIELD_GUARD_BYTES - 1) :
           FieldValue(memory, (memory_size - POST_FIELD_GUARD_BYTES + i) * BITS_PER_BYTE,
                      BITS_PER_BYTE) = 255

\* The temporary list header start_delta_index_search makes of the offset
\* table of an immutable page (delta_lists is NULL there): list list_number is
\* found at index list_number + 1, as the lists of a mutable zone are.
immutable_delta_lists(memory, list_count) ==
    [i \in 1..list_count |->
        [start |-> get_immutable_start(memory, i - 1),
         size |-> get_immutable_start(memory, i) - get_immutable_start(memory, i - 1),
         save_key |-> 0,
         save_offset |-> 0]]

\* What initialize_delta_index_page makes of a page whose header, read in
\* one byte order, was verified. highest_list_number is an unsigned int: the
\* -1 of a page with no list and first list 0 stands for U32_MAX.
delta_index_page(header, mean_delta, payload_bits, memory, memory_size) ==
    [result |-> UDS_SUCCESS,
     virtual_chapter_number |-> header.virtual_chapter_number,
     lowest_list_number |-> header.first_list,
     highest_list_number |-> header.first_list + header.list_count - 1,
     delta_zone |-> [mean_delta |-> mean_delta,
                     incr_keys |-> compute_coding_constants(mean_delta).incr_keys,
                     min_bits |-> compute_coding_constants(mean_delta).min_bits,
                     min_keys |-> compute_coding_constants(mean_delta).min_keys,
                     value_bits |-> payload_bits,
                     size |-> memory_size,
                     list_count |-> header.list_count,
                     delta_lists |-> immutable_delta_lists(memory, header.list_count),
                     memory |-> memory,
                     rebalance_count |-> 0,
                     record_count |-> 0,
                     collision_count |-> 0,
                     discard_count |-> 0,
                     overflow_count |-> 0]]

initialize_delta_index_page(expected_nonce, mean_delta, payload_bits, memory, memory_size) ==
    With(get_delta_page_header(memory, FALSE), LAMBDA le :
    With(get_delta_page_header(memory, TRUE), LAMBDA be :
         IF verify_delta_index_page(le.nonce, le.list_count, expected_nonce, memory,
                                    memory_size)
         THEN delta_index_page(le, mean_delta, payload_bits, memory, memory_size)
         ELSE IF verify_delta_index_page(be.nonce, be.list_count, expected_nonce, memory,
                                         memory_size)
         THEN delta_index_page(be, mean_delta, payload_bits, memory, memory_size)
         ELSE [result |-> UDS_CORRUPT_DATA]))

\* move_bits from one buffer to another: the two buffers are laid out in one
\* address space, a multiple of 32 bits apart (so that every offset keeps its
\* place within its u32) and in the order that keeps from_offset > to_offset
\* as it is, and only the bits of the destination are kept.
move_bits_between(from, from_offset, to, to_offset, size) ==
    With(U32_BITS * (1 + (from_offset + to_offset + size) \div U32_BITS), LAMBDA apart :
         IF from_offset > to_offset
         THEN {bit \in move_bits(to \cup {apart + b : b \in from},
                                 apart + from_offset, to_offset, size) : bit < apart}
         ELSE {bit - apart : bit \in {b \in move_bits(from \cup {apart + b : b \in to},
                                                      from_offset, apart + to_offset, size) :
                                         b >= apart}})

\* pack_delta_index_page: the number of lists, from list first_list on, that
\* fit the free bits of the page.
RECURSIVE lists_that_fit(_, _, _, _)
lists_that_fit(delta_lists, n_lists, max_lists, free_bits) ==
    IF n_lists < max_lists /\ IMMUTABLE_HEADER_SIZE + delta_lists[n_lists].size <= free_bits
    THEN lists_that_fit(delta_lists, n_lists + 1, max_lists,
                        free_bits - (IMMUTABLE_HEADER_SIZE + delta_lists[n_lists].size))
    ELSE n_lists

\* pack_delta_index_page: the offset table, entries i .. n_lists.
RECURSIVE set_immutable_starts(_, _, _, _, _)
set_immutable_starts(memory, delta_lists, i, n_lists, offset) ==
    IF i > n_lists
    THEN memory
    ELSE set_immutable_starts(set_immutable_start(memory, i, offset), delta_lists, i + 1,
                              n_lists,
                              IF i < n_lists THEN offset + delta_lists[i].size ELSE offset)

\* pack_delta_index_page: the data of the lists i .. n_lists - 1.
RECURSIVE copy_delta_lists(_, _, _, _, _)
copy_delta_lists(zone_memory, memory, delta_lists, i, n_lists) ==
    IF i >= n_lists
    THEN memory
    ELSE copy_delta_lists(zone_memory,
                          move_bits_between(zone_memory, delta_lists[i].start, memory,
                                            get_immutable_start(memory, i),
                                            delta_lists[i].size),
                          delta_lists, i + 1, n_lists)

\* A pack_delta_index_page that leaves the offset of the end of the last list
\* out of the offset table.
pack_without_last_offset(zone, header_nonce, memory, memory_size, vcn, first_list) ==
    LET delta_lists == [n \in 0..(zone.list_count - first_list - 1) |->
                           zone.delta_lists[first_list + 1 + n]]
        free_bits == memory_size * BITS_PER_BYTE - get_immutable_header_offset(1)
                     - POST_FIELD_GUARD_BYTES * BITS_PER_BYTE
    IN  IF free_bits < IMMUTABLE_HEADER_SIZE
        THEN [result |-> UDS_OVERFLOW, memory |-> memory, list_count |-> 0]
        ELSE With(lists_that_fit(delta_lists, 0, zone.list_count - first_list, free_bits),
                  LAMBDA n_lists :
                  [result |-> UDS_SUCCESS,
                   list_count |-> n_lists,
                   memory |->
                       copy_delta_lists(
                           zone.memory,
                           set_immutable_starts(
                               put_delta_page_header(
                                   [nonce |-> header_nonce,
                                    virtual_chapter_number |-> vcn,
                                       first_list |-> first_list,
                                    list_count |-> n_lists],
                                   memory, FALSE),
                               delta_lists, 0, n_lists - 1,
                               get_immutable_header_offset(n_lists + 1)),
                           delta_lists, 0, n_lists)
                       \cup Field((memory_size - POST_FIELD_GUARD_BYTES) * BITS_PER_BYTE,
                                  POST_FIELD_GUARD_BYTES * BITS_PER_BYTE)])

\* pack_delta_index_page, on the one zone of a chapter index: the header in
\* little-endian order, the offset table, the data of the lists that fit, and
\* the guard bytes. When the page is too small for any list nothing is
\* written, *list_count included (it is shown as 0).
pack_delta_index_page(zone, header_nonce, memory, memory_size, vcn, first_list) ==
    LET delta_lists == [n \in 0..(zone.list_count - first_list - 1) |->
                           zone.delta_lists[first_list + 1 + n]]
        free_bits == memory_size * BITS_PER_BYTE - get_immutable_header_offset(1)
                     - POST_FIELD_GUARD_BYTES * BITS_PER_BYTE
    IN  IF free_bits < IMMUTABLE_HEADER_SIZE
        THEN [result |-> UDS_OVERFLOW, memory |-> memory, list_count |-> 0]
        ELSE With(lists_that_fit(delta_lists, 0, zone.list_count - first_list, free_bits),
                  LAMBDA n_lists :
                  [result |-> UDS_SUCCESS,
                   list_count |-> n_lists,
                   memory |->
                       copy_delta_lists(
                           zone.memory,
                           set_immutable_starts(
                               put_delta_page_header(
                                   [nonce |-> header_nonce,
                                    virtual_chapter_number |-> vcn,
                                    first_list |-> first_list,
                                    list_count |-> n_lists],
                                   memory, FALSE),
                               delta_lists, 0, n_lists,
                               get_immutable_header_offset(n_lists + 1)),
                           delta_lists, 0, n_lists)
                       \cup Field((memory_size - POST_FIELD_GUARD_BYTES) * BITS_PER_BYTE,
                                  POST_FIELD_GUARD_BYTES * BITS_PER_BYTE)])

\* swap_delta_index_page_endianness: the header is read in little-endian
\* order and written back in big-endian order.
swap_delta_index_page_endianness(memory) ==
    put_delta_page_header(get_delta_page_header(memory, FALSE), memory, TRUE)

\* ------------------------------------ the specification of chapter index pages

\* The sizes of a page in bytes: one too small for any list, one with room
\* for one empty list, and one with room for both lists of the zone.
PageSizes == {31, 32, 40}

\* The nonces of a volume: one that reads differently in the two byte orders
\* and one that reads the same.
Nonces == {<<1, 0, 0, 0, 0, 0, 0, 2>>, <<5, 0, 0, 0, 0, 0, 0, 5>>}

\* The virtual chapter the page belongs to.
PageChapter == u64_bytes(259)

\* The keys of the entries of a chapter index.
PageKeys == {3, 10, 11}

\* The number of entries put into the lists before they are packed.
MaxPagePuts == 2

\* The bits of a page that storage may hand back inverted: a bit of the
\* nonce, of the first list and of the list count, two low bits and the top
\* bit of each entry of the offset table, and the first and the last bit of
\* the guard bytes.
DamagedBits(memory_size) ==
    {0, 128, 144}
        \cup {get_immutable_header_offset(i) + j : i \in 0..ListCount, j \in {0, 3, 18}}
        \cup {(memory_size - POST_FIELD_GUARD_BYTES) * BITS_PER_BYTE,
              memory_size * BITS_PER_BYTE - 1}

\* A mutable zone with empty lists, as the open chapter index starts, and no
\* page yet.
InitPage ==
    /\ NoIndex
    /\ \E mean_delta \in ZoneMeanDeltas :
           delta_zone = initialize_delta_zone(ZoneBytes, ListCount, mean_delta, PayloadBits)
    /\ delta_entry = NewEntry(0)
    /\ delta_op = [op |-> "init", count |-> 0, last_removed |-> <<>>]
    /\ delta_page = [state |-> "none"]
    /\ NoSave /\ NoMore

\* An entry is put into the zone that is not packed yet.
FillPage(list_number, key, value) ==
    /\ delta_page.state = "none"
    /\ delta_op.count < MaxPagePuts
    /\ PutEntry(list_number, key, value)

\* The lists of the zone from first_list on are packed into a page whose
\* bytes are all zero or all one before.
PackPage(header_nonce, memory_size, first_list, ones) ==
    /\ delta_page.state = "none"
    /\ \E packed \in {pack_delta_index_page(
                          delta_zone, header_nonce,
                          IF ones THEN Field(0, memory_size * BITS_PER_BYTE) ELSE {},
                          memory_size, PageChapter, first_list)} :
           /\ delta_page' = [state |-> "packed",
                             result |-> packed.result,
                             memory |-> packed.memory,
                             memory_size |-> memory_size,
                             nonce |-> header_nonce,
                          first_list |-> first_list,
                             list_count |-> packed.list_count,
                             swapped |-> FALSE,
                             damaged |-> -1]
           /\ delta_op' = [op |-> "pack", result |-> packed.result, count |-> delta_op.count,
                           last_removed |-> delta_op.last_removed]
    /\ UNCHANGED <<index_vars, delta_zone, delta_entry, save_vars, more_vars>>

\* The header of the page is rewritten in big-endian order.
SwapPage ==
    /\ delta_page.state = "packed"
    /\ delta_page.result = UDS_SUCCESS
    /\ ~delta_page.swapped
    /\ delta_page.damaged = -1
    /\ delta_page' = [delta_page EXCEPT
                          !.memory = swap_delta_index_page_endianness(delta_page.memory),
                          !.swapped = TRUE]
    /\ UNCHANGED <<index_vars, delta_vars, save_vars, more_vars>>

\* Storage inverts one bit of the page.
DamagePage(bit) ==
    /\ delta_page.state = "packed"
    /\ delta_page.result = UDS_SUCCESS
    /\ ~delta_page.swapped
    /\ delta_page.damaged = -1
    /\ delta_page' = [delta_page EXCEPT
                          !.memory = IF bit \in delta_page.memory
                                     THEN delta_page.memory \ {bit}
                                     ELSE delta_page.memory \cup {bit},
                          !.damaged = bit]
    /\ UNCHANGED <<index_vars, delta_vars, save_vars, more_vars>>

\* The page is read back: initialize_delta_index_page with the mean delta and
\* the payload width of the zone it was packed from.
LoadPage(expected_nonce) ==
    /\ delta_page.state = "packed"
    /\ delta_page.result = UDS_SUCCESS
    /\ \E loaded \in {initialize_delta_index_page(expected_nonce, delta_zone.mean_delta,
                                                  delta_zone.value_bits, delta_page.memory,
                                                  delta_page.memory_size)} :
           delta_page' = [delta_page EXCEPT !.state = "loaded"]
                             @@ [expected_nonce |-> expected_nonce, page |-> loaded]
    /\ UNCHANGED <<index_vars, delta_vars, save_vars, more_vars>>

NextPage ==
    \/ \E list_number \in 0..(ListCount - 1), key \in PageKeys, value \in Values :
           FillPage(list_number, key, value)
    \/ \E header_nonce \in Nonces, memory_size \in PageSizes,
          first_list \in 0..(ListCount - 1), ones \in BOOLEAN :
           PackPage(header_nonce, memory_size, first_list, ones)
    \/ SwapPage
    \/ /\ delta_page.state = "packed"
       /\ \E bit \in DamagedBits(delta_page.memory_size) : DamagePage(bit)
    \/ \E expected_nonce \in Nonces : LoadPage(expected_nonce)

SpecPage == InitPage /\ [][NextPage]_vars

\* ------------------------------------------------------------------ C21

\* A page that was packed, perhaps rewritten in big-endian order, and then
\* read back with the nonce it was packed with, undamaged.
PageReadBack ==
    /\ delta_page.state = "loaded"
    /\ delta_page.damaged = -1
    /\ delta_page.expected_nonce = delta_page.nonce

PassesPageChecks(header, expected_nonce, memory, memory_size) ==
    LET table_bits == (memory_size - DELTA_PAGE_HEADER_BYTES) * BITS_PER_BYTE
        guard == (memory_size - POST_FIELD_GUARD_BYTES) * BITS_PER_BYTE
    IN  /\ header.nonce = expected_nonce
        /\ header.list_count * IMMUTABLE_HEADER_SIZE <= table_bits
        /\ get_immutable_start(memory, 0)
               = (DELTA_PAGE_HEADER_BYTES * BITS_PER_BYTE
                  + (header.list_count + 1) * IMMUTABLE_HEADER_SIZE)
        /\ \A i \in 1..header.list_count :
               get_immutable_start(memory, i - 1) <= get_immutable_start(memory, i)
        /\ get_immutable_start(memory, header.list_count) <= guard
        /\ guard..(memory_size * BITS_PER_BYTE - 1) \subseteq memory

\* C22: reading a page back returns UDS_CORRUPT_DATA exactly when, in the
\* little-endian and in the big-endian reading of its header, the page fails
\* one of the nonce, list count, first offset, offset order, last offset and
\* guard byte checks; a page that passes them in one byte order is accepted.
CorruptPageRejected ==
    delta_page.state = "loaded" =>
        /\ delta_page.page.result \in {UDS_SUCCESS, UDS_CORRUPT_DATA}
        /\ delta_page.page.result = UDS_CORRUPT_DATA
               <=> \A big_endian \in BOOLEAN :
                       ~PassesPageChecks(get_delta_page_header(delta_page.memory, big_endian),
                                         delta_page.expected_nonce, delta_page.memory,
                                         delta_page.memory_size)

\* A page with a guard bit inverted, and nothing else wrong with it, was
\* rejected.
DamagedGuardRejected ==
    /\ delta_page.state = "loaded"
    /\ delta_page.expected_nonce = delta_page.nonce
    /\ delta_page.damaged = delta_page.memory_size * BITS_PER_BYTE - 1
    /\ delta_page.page.result = UDS_CORRUPT_DATA

\* ------------------------------------- saving and restoring a delta index

UDS_INVALID_ARGUMENT == "UDS_INVALID_ARGUMENT"

DELTA_INDEX_MAGIC == "DI-00002"

ALLOC_BOUNDARY == 65536

\* DELTA_LIST_MAX_BYTE_COUNT
DELTA_LIST_MAX_BYTE_COUNT == (U16_MAX + BITS_PER_BYTE) \div BITS_PER_BYTE + POST_FIELD_GUARD_BYTES

\* The memory of each zone is a multiple of 64K in size.
get_zone_memory_size(zones_in_index, memory_size) ==
    ((memory_size \div zones_in_index + ALLOC_BOUNDARY - 1) \div ALLOC_BOUNDARY)
        * ALLOC_BOUNDARY

\* initialize_delta_index: zone z gets the lists from z * lists_per_zone on,
\* the last zone those that are left; every zone is reset.
initialize_delta_index(zones_in_index, list_count, mean_delta, payload_bits, memory_size, tag) ==
    LET lists_per_zone == (list_count + zones_in_index - 1) \div zones_in_index
    IN  IF list_count <= (zones_in_index - 1) * lists_per_zone
        THEN [result |-> UDS_INVALID_ARGUMENT]
        ELSE [result |-> UDS_SUCCESS,
              zone_count |-> zones_in_index,
              list_count |-> list_count,
              lists_per_zone |-> lists_per_zone,
              tag |-> tag,
              delta_zones |->
                  [z \in 0..(zones_in_index - 1) |->
                      initialize_delta_zone(get_zone_memory_size(zones_in_index, memory_size),
                                            IF z = zones_in_index - 1
                                            THEN list_count - z * lists_per_zone
                                            ELSE lists_per_zone,
                                            mean_delta, payload_bits)
                          @@ [first_list |-> z * lists_per_zone, tag |-> tag]]]

\* reset_delta_index, on one zone: the lists are empty and evenly spaced
\* again and the guard bytes are set; the rest of the memory is not touched.
reset_delta_zone(zone) ==
    [zone EXCEPT
        !.delta_lists = initialize_delta_zone(zone.size, zone.list_count, zone.mean_delta,
                                              zone.value_bits).delta_lists,
        !.memory = @ \cup Field(zone.size * BITS_PER_BYTE - GUARD_BITS, GUARD_BITS),
        !.discard_count = @ + zone.record_count,
        !.record_count = 0,
        !.collision_count = 0]

\* start_saving_delta_index: the header of a zone and the sizes of its lists,
\* each a u16.
start_saving_delta_index(di, zone_number) ==
    LET zone == di.delta_zones[zone_number]
    IN  [header |-> [magic |-> DELTA_INDEX_MAGIC,
                     zone_number |-> zone_number,
                     zone_count |-> di.zone_count,
                     first_list |-> zone.first_list,
                     list_count |-> zone.list_count,
                     record_count |-> zone.record_count,
                     collision_count |-> zone.collision_count],
         sizes |-> [i \in 1..zone.list_count |-> zone.delta_lists[i].size % (U16_MAX + 1)]]

\* flush_delta_list: the save info of a list (tag and bit offset are a u8,
\* the byte count is a u16) and the bytes the list lies in, as the set of
\* their one bits counted from the first of these bytes.
flush_delta_list(zone, flush_index) ==
    LET delta_list == zone.delta_lists[flush_index + 1]
        first_bit == get_delta_list_byte_start(delta_list) * BITS_PER_BYTE
    IN  [tag |-> zone.tag,
         bit_offset |-> delta_list.start % BITS_PER_BYTE,
         byte_count |-> get_delta_list_byte_size(delta_list) % (U16_MAX + 1),
         index |-> zone.first_list + flush_index,
         data |-> {bit - first_bit :
                      bit \in {b \in zone.memory :
                                  /\ b >= first_bit
                                  /\ b < first_bit + get_delta_list_byte_size(delta_list)
                                                         * BITS_PER_BYTE}}]

\* finish_saving_delta_index: the lists that are not empty, in order.
RECURSIVE finish_saving_delta_index(_, _)
finish_saving_delta_index(zone, i) ==
    IF i >= zone.list_count
    THEN <<>>
    ELSE (IF zone.delta_lists[i + 1].size > 0 THEN <<flush_delta_list(zone, i)>> ELSE <<>>)
         \o finish_saving_delta_index(zone, i + 1)

\* write_guard_delta_list: a save info with the tag 'z' and nothing else.
write_guard_delta_list ==
    [tag |-> "z", bit_offset |-> 0, byte_count |-> 0, index |-> 0, data |-> {}]

\* What the buffered writer of a zone has received when the zone is saved:
\* start_saving_delta_index, finish_saving_delta_index, write_guard_delta_list.
saved_delta_zone(di, zone_number) ==
    start_saving_delta_index(di, zone_number)
        @@ [lists |-> finish_saving_delta_index(di.delta_zones[zone_number], 0)
                          \o <<write_guard_delta_list>>]

\* start_restoring_delta_index: the loop that reads and validates the header
\* of each reader, from reader z on.
RECURSIVE read_delta_index_headers(_, _, _)
read_delta_index_headers(streams, z, list_next) ==
    IF z \notin DOMAIN streams
    THEN [result |-> UDS_SUCCESS, list_next |-> list_next]
    ELSE IF \/ streams[z].header.magic # DELTA_INDEX_MAGIC
            \/ Cardinality(DOMAIN streams) # streams[z].header.zone_count
            \/ streams[z].header.zone_number >= Cardinality(DOMAIN streams)
            \/ streams[z].header.zone_number # z
            \/ streams[z].header.first_list # list_next
    THEN [result |-> UDS_CORRUPT_DATA, list_next |-> list_next]
    ELSE read_delta_index_headers(streams, z + 1, list_next + streams[z].header.list_count)

\* The sum of a field of the headers of the readers 0 .. z.
RECURSIVE header_total(_, _, _)
header_total(streams, field, z) ==
    IF z < 0 THEN 0 ELSE streams[z].header[field] + header_total(streams, field, z - 1)

\* start_restoring_delta_index: the size read for list list_number, from the
\* reader whose header covers it.
saved_list_size(streams, list_number) ==
    LET z == CHOOSE r \in DOMAIN streams :
                 /\ streams[r].header.first_list <= list_number
                 /\ list_number < streams[r].header.first_list + streams[r].header.list_count
    IN  streams[z].sizes[list_number - streams[z].header.first_list + 1]

\* rebalance_lists: the lists are given the offsets compute_new_list_offsets
\* makes of their sizes. The code does not compare the space the lists need
\* with the size of the zone: see restore_overflows.
rebalance_lists(zone) ==
    With(compute_new_list_offsets(zone, 0, 0, lists_byte_size(zone, zone.list_count + 1)),
         LAMBDA new_offsets :
             [zone EXCEPT !.delta_lists =
                              [i \in DOMAIN zone.delta_lists |->
                                  IF i = 0
                                  THEN zone.delta_lists[i]
                                  ELSE [zone.delta_lists[i] EXCEPT !.start = new_offsets[i]]]])

\* A zone after reset_delta_index, with the sizes read for its lists and, for
\* the first zone, the record counts of all the headers.
zone_with_saved_sizes(zone, streams) ==
    With(reset_delta_zone(zone), LAMBDA reset :
         [reset EXCEPT
             !.delta_lists = [i \in DOMAIN reset.delta_lists |->
                                 IF i = 0 \/ i = zone.list_count + 1
                                 THEN reset.delta_lists[i]
                                 ELSE [reset.delta_lists[i] EXCEPT
                                          !.size = saved_list_size(streams,
                                                                   zone.first_list + i - 1)]],
             !.record_count = IF zone.first_list = 0
                              THEN header_total(streams, "record_count",
                                                Cardinality(DOMAIN streams) - 1)
                              ELSE 0,
             !.collision_count = IF zone.first_list = 0
                                 THEN header_total(streams, "collision_count",
                                                   Cardinality(DOMAIN streams) - 1)
                                 ELSE 0])

\* Whether the lists read for a zone need more bytes than the zone has: the
\* size_t delta_zone->size - used_space of compute_new_list_offsets then wraps
\* around, the offsets of the lists lie far outside the memory of the zone,
\* and restore_delta_list_to_zone moves the bits of the lists there.
restore_overflows(zone) ==
    lists_byte_size(zone, zone.list_count + 1) > zone.size

\* start_restoring_delta_index(delta_index, buffered_readers, reader_count):
\* streams[z] is what reader z yields.
start_restoring_delta_index(di, streams) ==
    With(read_delta_index_headers(streams, 0, 0), LAMBDA headers :
         IF headers.result # UDS_SUCCESS
         THEN [result |-> headers.result]
         ELSE IF headers.list_next # di.list_count
         THEN [result |-> UDS_CORRUPT_DATA]
         ELSE IF header_total(streams, "collision_count", Cardinality(DOMAIN streams) - 1)
                     > header_total(streams, "record_count", Cardinality(DOMAIN streams) - 1)
         THEN [result |-> UDS_CORRUPT_DATA]
         ELSE With([z \in DOMAIN di.delta_zones |->
                       zone_with_saved_sizes(di.delta_zones[z], streams)], LAMBDA sized :
                   [result |-> UDS_SUCCESS,
                    overflows |-> \E z \in DOMAIN sized : restore_overflows(sized[z]),
                    load_lists |-> [z \in DOMAIN streams |->
                                       Cardinality({i \in DOMAIN streams[z].sizes :
                                                       streams[z].sizes[i] > 0})],
                    index |-> [di EXCEPT
                                  !.delta_zones =
                                      [z \in DOMAIN sized |->
                                          IF restore_overflows(sized[z])
                                          THEN sized[z]
                                          ELSE rebalance_lists(sized[z])]]]))

\* restore_delta_list_to_zone. The list number is unsigned: an index below
\* the first list of the zone gives a number that is out of range.
restore_delta_list_to_zone(zone, save_info) ==
    LET list_number == save_info.index - zone.first_list
    IN  IF list_number < 0 \/ list_number >= zone.list_count
        THEN [result |-> UDS_CORRUPT_DATA, zone |-> zone]
        ELSE IF zone.delta_lists[list_number + 1].size = 0
        THEN [result |-> UDS_CORRUPT_DATA, zone |-> zone]
        ELSE IF save_info.byte_count
                    # BITS_TO_BYTES(save_info.bit_offset + zone.delta_lists[list_number + 1].size)
        THEN [result |-> UDS_CORRUPT_DATA, zone |-> zone]
        ELSE [result |-> UDS_SUCCESS,
              zone |-> [zone EXCEPT
                           !.memory = move_bits_between(save_info.data, save_info.bit_offset,
                                                        zone.memory,
                                                        zone.delta_lists[list_number + 1].start,
                                                        zone.delta_lists[list_number + 1].size)]]

restore_delta_list_data(di, save_info) ==
    IF save_info.bit_offset >= BITS_PER_BYTE \/ save_info.byte_count > DELTA_LIST_MAX_BYTE_COUNT
    THEN [result |-> UDS_CORRUPT_DATA, index |-> di]
    ELSE IF save_info.tag # di.tag
    THEN [result |-> UDS_CORRUPT_DATA, index |-> di]
    ELSE IF save_info.index >= di.list_count
    THEN [result |-> UDS_CORRUPT_DATA, index |-> di]
    ELSE With(restore_delta_list_to_zone(di.delta_zones[save_info.index \div di.lists_per_zone],
                                         save_info), LAMBDA restored :
              [result |-> restored.result,
               index |-> [di EXCEPT !.delta_zones[save_info.index \div di.lists_per_zone] =
                                        restored.zone]])

\* finish_restoring_delta_index: from each reader in turn, as many lists as
\* the reader has sizes that are not zero; an error ends the lists of its
\* reader and is returned once all the readers are done.
RECURSIVE finish_restoring_delta_index(_, _, _, _, _, _)
finish_restoring_delta_index(di, streams, load_lists, z, k, saved_result) ==
    IF z \notin DOMAIN streams
    THEN [result |-> saved_result, index |-> di]
    ELSE IF k > load_lists[z]
    THEN finish_restoring_delta_index(di, streams, load_lists, z + 1, 1, saved_result)
    ELSE With(restore_delta_list_data(di, streams[z].lists[k]), LAMBDA restored :
              IF restored.result # UDS_SUCCESS
              THEN finish_restoring_delta_index(restored.index, streams, load_lists, z + 1, 1,
                                                restored.result)
              ELSE finish_restoring_delta_index(restored.index, streams, load_lists, z, k + 1,
                                                saved_result))

\* check_guard_delta_lists: the next save info of every reader has the tag 'z'.
check_guard_delta_lists(streams, load_lists) ==
    IF \A z \in DOMAIN streams : streams[z].lists[load_lists[z] + 1].tag = "z"
    THEN UDS_SUCCESS
    ELSE UDS_CORRUPT_DATA

\* ----------------------- the specification of saving and restoring a delta index

\* The numbers of zones of the index that is saved and of the index that the
\* save is restored into.
SaveZones == {1, 2}

\* The memory of a delta index, in bytes: with one zone the zone has all of
\* it, with two zones each has half.
SaveMemory == 2 * ALLOC_BOUNDARY

\* The callers of the index: one puts a few entries with small keys into any
\* of three lists; the other puts one long entry into each of the first lists
\* of an index of 17 lists, which are the lists of the first of two zones.
SaveCallers == {"few", "skewed"}

\* The number of lists of the index of a caller.
SaveLists(caller) == IF caller = "few" THEN 3 ELSE 17

\* The number of entries a caller puts before the index is saved.
MaxSavePuts == 2
MaxSkewedPuts == 9

\* The key of a long entry: with mean delta 3 its entry has 60003 bits.
SkewedKey == 120000

\* The mean deltas of the index of a caller.
SaveMeanDeltas(caller) == IF caller = "few" THEN ZoneMeanDeltas ELSE {3}

InitSave ==
    /\ NoIndex /\ NoPage /\ NoMore
    /\ delta_zone = <<>> /\ delta_entry = <<>> /\ delta_op = <<>>
    /\ \E caller \in SaveCallers :
       \E zones_in_index \in (IF caller = "few" THEN SaveZones ELSE {1}),
          mean_delta \in SaveMeanDeltas(caller) :
           delta_index = [caller |-> caller,
                          puts |-> 0,
                          mean_delta |-> mean_delta,
                          index |-> initialize_delta_index(zones_in_index, SaveLists(caller),
                                                           mean_delta, PayloadBits, SaveMemory,
                                                           "m")]
    /\ delta_save = [state |-> "none"]

\* The caller looks a key up in a list of the index, does not find it, and
\* puts an entry for it: start_delta_index_search finds the zone of the list.
PutIndexEntry(list_number, key, value) ==
    /\ delta_save.state = "none"
    /\ delta_index.puts < (IF delta_index.caller = "few" THEN MaxSavePuts ELSE MaxSkewedPuts)
    /\ delta_index.caller = "skewed"
           => list_number = delta_index.puts /\ key = SkewedKey /\ value = 0
    /\ delta_index.caller = "few" => key # SkewedKey
    /\ list_number < delta_index.index.list_count
    /\ \E zone_number \in {list_number \div delta_index.index.lists_per_zone} :
       \E zone \in {delta_index.index.delta_zones[zone_number]} :
       \E got \in {get_delta_index_entry(zone, list_number - zone.first_list, key)} :
           /\ got.result = UDS_SUCCESS
           /\ ~was_entry_found(got, key)
           /\ \E put \in {put_delta_index_entry(got.zone, got.entry, key, value)} :
                  delta_index' = [delta_index EXCEPT !.puts = @ + 1,
                                                     !.index.delta_zones[zone_number] = put.zone]
    /\ UNCHANGED <<index_vars, delta_vars, page_vars, more_vars, delta_save>>

\* Every zone of the index is saved to a stream of its own.
SaveIndex ==
    /\ delta_save.state = "none"
    /\ delta_save' = [state |-> "saved",
                      tampered |-> FALSE,
                      streams |-> [z \in 0..(delta_index.index.zone_count - 1) |->
                                      saved_delta_zone(delta_index.index, z)]]
    /\ UNCHANGED <<index_vars, delta_vars, page_vars, more_vars, delta_index>>

\* The first list or the list count of the header of one stream comes back
\* changed by one.
TamperHeader(z, field, change) ==
    /\ delta_save.state = "saved"
    /\ ~delta_save.tampered
    /\ z \in DOMAIN delta_save.streams
    /\ delta_save.streams[z].header[field] + change >= 0
    /\ delta_save' = [delta_save EXCEPT !.tampered = TRUE,
                                        !.streams[z].header[field] = @ + change]
    /\ UNCHANGED <<index_vars, delta_vars, page_vars, more_vars, delta_index>>

\* The streams are restored into a new index of as many lists, with the same
\* memory, mean delta and payload width, and of zones_in_index zones:
\* start_restoring_delta_index, finish_restoring_delta_index and
\* check_guard_delta_lists. When the lists of a zone do not fit its memory
\* the behaviour is undefined: the writes outside the memory end the process,
\* or they damage other memory and the restore goes on.
RestoreIndex(zones_in_index) ==
    /\ delta_save.state = "saved"
    /\ \E target \in {initialize_delta_index(zones_in_index, delta_index.index.list_count,
                                             delta_index.mean_delta, PayloadBits, SaveMemory,
                                             "m")} :
       \E started \in {start_restoring_delta_index(target, delta_save.streams)} :
           IF started.result # UDS_SUCCESS
           THEN delta_save' = [delta_save EXCEPT !.state = "restored"]
                                  @@ [result |-> started.result]
           ELSE IF started.overflows
           THEN \E outcome \in {"fault", "writes outside the zone"} :
                    delta_save' = [delta_save EXCEPT !.state = "restored"]
                                      @@ [result |-> "undefined", outcome |-> outcome]
           ELSE \E finished \in {finish_restoring_delta_index(started.index,
                                                              delta_save.streams,
                                                              started.load_lists, 0, 1,
                                                              UDS_SUCCESS)} :
                    delta_save' = [delta_save EXCEPT !.state = "restored"]
                                      @@ [result |-> finished.result,
                                          index |-> finished.index,
                                          guard |-> check_guard_delta_lists(
                                                        delta_save.streams, started.load_lists)]
    /\ UNCHANGED <<index_vars, delta_vars, page_vars, more_vars, delta_index>>

NextSave ==
    \/ \E list_number \in 0..(MaxSkewedPuts - 1), key \in PageKeys \cup {SkewedKey},
          value \in Values :
           PutIndexEntry(list_number, key, value)
    \/ SaveIndex
    \/ \E z \in 0..1, field \in {"first_list", "list_count"}, change \in {-1, 1} :
           TamperHeader(z, field, change)
    \/ \E zones_in_index \in SaveZones : RestoreIndex(zones_in_index)

SpecSave == InitSave /\ [][NextSave]_vars

\* ------------------------------------------------------------------ C23

\* The zone of an index that holds list list_number, and the list's number
\* in that zone.
zone_of_list(di, list_number) == di.delta_zones[list_number \div di.lists_per_zone]

local_list(di, list_number) ==
    list_number - zone_of_list(di, list_number).first_list

\* The sum of a count over the zones of an index, from zone z down.
RECURSIVE zone_total(_, _, _)
zone_total(di, field, z) ==
    IF z < 0 THEN 0 ELSE di.delta_zones[z][field] + zone_total(di, field, z - 1)

\* What C23 asks of a restored index: every list has the bit length and the
\* entries it had in the index that was saved, the counts of records and of
\* collisions add up to the same, and the guard records are accepted.
SameDeltaIndex(before, after, guard) ==
    /\ \A n \in 0..(before.list_count - 1) :
           /\ zone_of_list(after, n).delta_lists[local_list(after, n) + 1].size
                  = zone_of_list(before, n).delta_lists[local_list(before, n) + 1].size
           /\ list_entries(zone_of_list(after, n), NewEntry(local_list(after, n)))
                  = list_entries(zone_of_list(before, n), NewEntry(local_list(before, n)))
    /\ zone_total(after, "record_count", after.zone_count - 1)
           = zone_total(before, "record_count", before.zone_count - 1)
    /\ zone_total(after, "collision_count", after.zone_count - 1)
           = zone_total(before, "collision_count", before.zone_count - 1)
    /\ guard = UDS_SUCCESS

\* C23: restoring the saved streams of a delta index into an index of as many
\* lists, in one zone or in two, succeeds and gives every list the bit length
\* and the entries it had when it was saved, the same totals of records and
\* collisions and an accepted guard record; streams of which one header had
\* its first list or its list count changed are rejected with
\* UDS_CORRUPT_DATA.
SavedIndexRestored ==
    delta_save.state = "restored" =>
        IF delta_save.tampered
        THEN delta_save.result = UDS_CORRUPT_DATA
        ELSE /\ delta_save.result = UDS_SUCCESS
             /\ SameDeltaIndex(delta_index.index, delta_save.index, delta_save.guard)

\* The same of every restore in which the lists read for each zone fit the
\* memory of the zone.
SavedIndexRestoredWhenFits ==
    delta_save.state = "restored" /\ delta_save.result # "undefined" =>
        IF delta_save.tampered
        THEN delta_save.result = UDS_CORRUPT_DATA
        ELSE /\ delta_save.result = UDS_SUCCESS
             /\ SameDeltaIndex(delta_index.index, delta_save.index, delta_save.guard)

\* The lists read for the first of two zones are longer than the memory of
\* the zone, and the restore writes outside it.
RestoreOutsideZone ==
    /\ delta_save.state = "restored"
    /\ ~delta_save.tampered
    /\ delta_save.result = "undefined"
    /\ delta_index.index.zone_count = 1

\* An index of two zones with an entry in a list of each was restored into
\* one zone, and an index of one zone into two.
RestoredIntoOtherZones ==
    /\ delta_save.state = "restored"
    /\ ~delta_save.tampered
    /\ delta_save.result = UDS_SUCCESS
    /\ delta_save.index.zone_count # delta_index.index.zone_count
    /\ \E n, m \in 0..(delta_index.index.list_count - 1) :
           /\ n \div delta_save.index.lists_per_zone # m \div delta_save.index.lists_per_zone
           /\ Len(list_entries(zone_of_list(delta_index.index, n),
                               NewEntry(local_list(delta_index.index, n)))) = 1
           /\ Len(list_entries(zone_of_list(delta_index.index, m),
                               NewEntry(local_list(delta_index.index, m)))) = 1

\* Streams with a changed header were rejected.
TamperedStreamsRejected ==
    /\ delta_save.state = "restored"
    /\ delta_save.tampered
    /\ delta_save.result = UDS_CORRUPT_DATA

\* ----------------------------------------- the page cache of the volume
\*
\* volume.c is not among the sources: the page cache is modelled from the
\* specification (section 4.4) and from the calls Volume_n4.c makes.

\* The length of the ring of queued reads: it holds one read less.
VOLUME_CACHE_MAX_QUEUED_READS == 3

\* The number of pages the cache holds.
CacheSlots == 2

\* The physical pages of the volume: page 0 is no page.
MaxPhysicalPage == 3

PhysicalPages == 1..MaxPhysicalPage

\* The read requests the test threads make, and the reader threads.
MaxReadRequests == 3

ReadRequests == 1..MaxReadRequests

ReaderCount == 2

Readers == 1..ReaderCount

\* How often the test sets READER_STATE_STOP.
MaxStops == 1

\* What enqueue_read returns when the queue is full: anything but UDS_QUEUED.
NOT_QUEUED == "not queued"

\* The restarters Volume_n4.c registers.
Restarters == {"retryReadRequest", "retryReadRequestAndVerify"}

\* pages[physPage]: the bytes writeTestVolumeData wrote to a page.
pages(physical_page) == <<"bytes of page", physical_page>>

\* The place of a page in the cache, or 0. The cache is kept in the order of
\* use, the least recently used page first.
get_page_from_cache(cache, physical_page) ==
    IF \E i \in DOMAIN cache : cache[i].physical_page = physical_page
    THEN CHOOSE i \in DOMAIN cache :
             /\ cache[i].physical_page = physical_page
             /\ \A j \in DOMAIN cache : cache[j].physical_page = physical_page => i <= j
    ELSE 0

make_page_most_recent(cache, i) ==
    SubSeq(cache, 1, i - 1) \o SubSeq(cache, i + 1, Len(cache)) \o <<cache[i]>>

\* select_victim_in_cache and put_page_in_cache: the page takes a free slot,
\* or the slot of the least recently used page.
put_page_in_cache(cache, physical_page, data) ==
    (IF Len(cache) < CacheSlots THEN cache ELSE Tail(cache))
        \o <<[physical_page |-> physical_page, data |-> data]>>

\* The queued read of a page: its place in the queue, or 0.
queued_read(read_queue, physical_page) ==
    IF \E i \in DOMAIN read_queue : read_queue[i].physical_page = physical_page
    THEN CHOOSE i \in DOMAIN read_queue :
             /\ read_queue[i].physical_page = physical_page
             /\ \A j \in DOMAIN read_queue :
                    read_queue[j].physical_page = physical_page => i <= j
    ELSE 0

read_queue_is_full_late(read_queue) == Len(read_queue) >= VOLUME_CACHE_MAX_QUEUED_READS

read_queue_is_full(read_queue) == Len(read_queue) >= VOLUME_CACHE_MAX_QUEUED_READS - 1

\* A sequence without its element i.
without(sequence, i) == SubSeq(sequence, 1, i - 1) \o SubSeq(sequence, i + 1, Len(sequence))

enqueue_read_apart(pc, request, physical_page) ==
    IF get_page_from_cache(pc.cache, physical_page) # 0
    THEN [result |-> UDS_SUCCESS, page_cache |-> pc]
    ELSE IF read_queue_is_full(pc.read_queue)
    THEN [result |-> NOT_QUEUED, page_cache |-> pc]
    ELSE [result |-> UDS_QUEUED,
          page_cache |->
              [pc EXCEPT !.read_queue = Append(@, [physical_page |-> physical_page,
                                                   invalid |-> FALSE,
                                                   reserved |-> FALSE,
                                                   requests |-> <<request>>]),
                         !.batches[physical_page] = @ + 1]]

\* enqueue_read: a request for a cached page is not queued; a request for a
\* page with a queued read is attached to that read; otherwise a read is
\* queued for the page, unless the queue is full.
enqueue_read(pc, request, physical_page) ==
    IF get_page_from_cache(pc.cache, physical_page) # 0
    THEN [result |-> UDS_SUCCESS, page_cache |-> pc]
    ELSE IF queued_read(pc.read_queue, physical_page) # 0
    THEN [result |-> UDS_QUEUED,
          page_cache |->
              [pc EXCEPT !.read_queue[queued_read(pc.read_queue, physical_page)].requests =
                             Append(@, request)]]
    ELSE IF read_queue_is_full(pc.read_queue)
    THEN [result |-> NOT_QUEUED, page_cache |-> pc]
    ELSE [result |-> UDS_QUEUED,
          page_cache |->
              [pc EXCEPT !.read_queue = Append(@, [physical_page |-> physical_page,
                                                   invalid |-> FALSE,
                                                   reserved |-> FALSE,
                                                   requests |-> <<request>>]),
                         !.batches[physical_page] = @ + 1]]

\* get_volume_page_locked: the page from the cache, or read from storage into
\* the cache at once.
get_volume_page_locked(pc, physical_page) ==
    IF get_page_from_cache(pc.cache, physical_page) # 0
    THEN [pc EXCEPT !.cache = make_page_most_recent(
                                  @, get_page_from_cache(pc.cache, physical_page))]
    ELSE [pc EXCEPT !.cache = put_page_in_cache(@, physical_page, pages(physical_page))]

\* How often a request is attached to a queued read.
attached(read, request) ==
    Cardinality({k \in DOMAIN read.requests : read.requests[k] = request})

\* The request restarter, called for each request of a read that is released:
\* retryReadRequest counts the request as done; retryReadRequestAndVerify first
\* gets the page with get_volume_page_locked and looks at its bytes. The
\* requests of one read are all for the same page, so the first call gets the
\* page and the others find it in the cache, the most recently used page.
restart_requests(pc, physical_page, requests) ==
    IF requests = <<>>
    THEN pc
    ELSE IF pc.restarter = "retryReadRequest"
    THEN [pc EXCEPT !.requests = [r \in ReadRequests |->
                                     [@[r] EXCEPT !.restarted =
                                         @ + attached([requests |-> requests], r)]]]
    ELSE [get_volume_page_locked(pc, physical_page) EXCEPT
             !.requests = [r \in ReadRequests |->
                              IF attached([requests |-> requests], r) = 0
                              THEN @[r]
                              ELSE [@[r] EXCEPT !.restarted =
                                                    @ + attached([requests |-> requests], r),
                                                !.observed = pages(physical_page)]]]

\* invalidate_page: the page leaves the cache, and a queued read of it is
\* marked invalid.
invalidate_page(pc, physical_page) ==
    [pc EXCEPT !.cache = SelectSeq(@, LAMBDA page : page.physical_page # physical_page),
               !.read_queue = [i \in DOMAIN @ |->
                                  IF @[i].physical_page = physical_page
                                  THEN [@[i] EXCEPT !.invalid = TRUE]
                                  ELSE @[i]]]

\* The first queued read no reader has reserved: its place, or 0.
next_read(read_queue) ==
    IF \E i \in DOMAIN read_queue : ~read_queue[i].reserved
    THEN CHOOSE i \in DOMAIN read_queue :
             /\ ~read_queue[i].reserved
             /\ \A j \in DOMAIN read_queue : ~read_queue[j].reserved => i <= j
    ELSE 0

reader_ignores_stop(pc) == next_read(pc.read_queue) # 0

\* wait_to_reserve_read_queue_entry: a reader takes a read from the queue
\* when the STOP flag is not set and a read is waiting.
reader_may_dequeue(pc) == ~pc.stop /\ next_read(pc.read_queue) # 0

\* release_read_queue_entry: the read leaves the queue and every request
\* attached to it is handed to the restarter.
release_read_queue_entry(pc, i) ==
    restart_requests([pc EXCEPT !.read_queue = without(@, i)],
                     pc.read_queue[i].physical_page, pc.read_queue[i].requests)

page_read_kept(pc, i) ==
    release_read_queue_entry(
        [pc EXCEPT !.cache = put_page_in_cache(@, pc.read_queue[i].physical_page,
                                               pages(pc.read_queue[i].physical_page))], i)

\* The end of a reader's read of a page: the page is put in the cache unless
\* the read was marked invalid meanwhile, and the read is released.
page_read(pc, i) ==
    release_read_queue_entry(
        IF pc.read_queue[i].invalid
        THEN pc
        ELSE [pc EXCEPT !.cache = put_page_in_cache(@, pc.read_queue[i].physical_page,
                                                    pages(pc.read_queue[i].physical_page))],
        i)

\* ------------------------------------- the specification of the page cache

\* init of Volume_n4.c: an empty cache, an empty queue, idle readers and one
\* of the restarters.
make_page_cache(restarter, reader_count) ==
    [cache |-> <<>>,
     read_queue |-> <<>>,
     stop |-> FALSE,
     stops |-> 0,
     readers |-> [t \in 1..reader_count |-> 0],
     restarter |-> restarter,
     requests |-> [r \in ReadRequests |->
                      [physical_page |-> 0, result |-> "none",
                       restarted |-> 0, observed |-> <<>>]],
     batches |-> [p \in PhysicalPages |-> 0],
     reads_issued |-> [p \in PhysicalPages |-> 0],
     dropped |-> [p \in PhysicalPages |-> 0]]

InitCache ==
    /\ NoIndex /\ NoPage /\ NoSave /\ NoLayout
    /\ delta_zone = <<>> /\ delta_entry = <<>> /\ delta_op = <<>>
    /\ \E restarter \in Restarters : page_cache = make_page_cache(restarter, ReaderCount)

\* init(retryReadRequest, 1) of testFullReadQueue and testInvalidateReadQueue,
\* with one reader thread.
InitCacheOneReader ==
    /\ NoIndex /\ NoPage /\ NoSave /\ NoLayout
    /\ delta_zone = <<>> /\ delta_entry = <<>> /\ delta_op = <<>>
    /\ page_cache = make_page_cache("retryReadRequest", 1)

\* volume->reader_state |= READER_STATE_STOP, and &= ~READER_STATE_STOP.
StopReaders ==
    /\ ~page_cache.stop
    /\ page_cache.stops < MaxStops
    /\ page_cache' = [page_cache EXCEPT !.stop = TRUE, !.stops = @ + 1]
    /\ UNCHANGED <<index_vars, delta_vars, page_vars, save_vars, layout_vars>>

StartReaders ==
    /\ page_cache.stop
    /\ page_cache' = [page_cache EXCEPT !.stop = FALSE]
    /\ UNCHANGED <<index_vars, delta_vars, page_vars, save_vars, layout_vars>>

\* A test thread calls enqueue_read for a new request, or again for a
\* request that was not queued because the queue was full.
EnqueueRead(request, physical_page) ==
    /\ \/ page_cache.requests[request].result = "none"
       \/ /\ page_cache.requests[request].result = NOT_QUEUED
          /\ page_cache.requests[request].physical_page = physical_page
    /\ \E enqueued \in {enqueue_read(page_cache, request, physical_page)} :
           page_cache' =
               [enqueued.page_cache EXCEPT
                   !.requests[request].physical_page = physical_page,
                   !.requests[request].result = enqueued.result,
                   !.requests[request].observed =
                       IF enqueued.result = UDS_SUCCESS
                       THEN page_cache.cache[get_page_from_cache(page_cache.cache,
                                                                 physical_page)].data
                       ELSE <<>>,
                   !.cache =
                       IF enqueued.result = UDS_SUCCESS
                       THEN make_page_most_recent(
                                @, get_page_from_cache(page_cache.cache, physical_page))
                       ELSE @]
    /\ UNCHANGED <<index_vars, delta_vars, page_vars, save_vars, layout_vars>>

\* A reader thread takes the next read from the queue. A read marked invalid
\* is released at once, without a read from storage; otherwise the reader
\* reserves it and starts reading the page from storage.
ReserveRead(reader) ==
    /\ reader \in DOMAIN page_cache.readers
    /\ page_cache.readers[reader] = 0
    /\ reader_may_dequeue(page_cache)
    /\ \E i \in {next_read(page_cache.read_queue)} :
       \E physical_page \in {page_cache.read_queue[i].physical_page} :
           IF page_cache.read_queue[i].invalid
           THEN page_cache' = [release_read_queue_entry(page_cache, i) EXCEPT
                                  !.dropped[physical_page] = @ + 1]
           ELSE page_cache' = [page_cache EXCEPT
                                  !.read_queue[i].reserved = TRUE,
                                  !.readers[reader] = physical_page,
                                  !.reads_issued[physical_page] = @ + 1]
    /\ UNCHANGED <<index_vars, delta_vars, page_vars, save_vars, layout_vars>>

\* The read from storage of a reader thread ends.
FinishRead(reader) ==
    /\ reader \in DOMAIN page_cache.readers
    /\ page_cache.readers[reader] # 0
    /\ \E i \in {queued_read(page_cache.read_queue, page_cache.readers[reader])} :
           page_cache' = [page_read(page_cache, i) EXCEPT !.readers[reader] = 0]
    /\ UNCHANGED <<index_vars, delta_vars, page_vars, save_vars, layout_vars>>

\* invalidatePageThread: invalidate_page of some page.
InvalidatePage(physical_page) ==
    /\ page_cache' = invalidate_page(page_cache, physical_page)
    /\ UNCHANGED <<index_vars, delta_vars, page_vars, save_vars, layout_vars>>

\* A test thread calls get_volume_page_locked, as testInvalidateReadQueue
\* does: for a page with no queued read, or one whose read was invalidated.
ReadPageLocked(physical_page) ==
    /\ queued_read(page_cache.read_queue, physical_page) # 0
           => page_cache.read_queue[queued_read(page_cache.read_queue, physical_page)].invalid
    /\ page_cache' = get_volume_page_locked(page_cache, physical_page)
    /\ UNCHANGED <<index_vars, delta_vars, page_vars, save_vars, layout_vars>>

NextCache ==
    \/ StopReaders
    \/ StartReaders
    \/ \E request \in ReadRequests, physical_page \in PhysicalPages :
           EnqueueRead(request, physical_page)
    \/ \E reader \in Readers : ReserveRead(reader)
    \/ \E reader \in Readers : FinishRead(reader)
    \/ \E physical_page \in PhysicalPages : InvalidatePage(physical_page)
    \/ \E physical_page \in PhysicalPages : ReadPageLocked(physical_page)

SpecCache == InitCache /\ [][NextCache]_vars

\* The test clears the STOP flag it set, and the reader threads run for as
\* long as the volume exists.
SpecCacheLive ==
    /\ InitCacheOneReader
    /\ [][NextCache]_vars
    /\ WF_vars(StartReaders)
    /\ \A reader \in Readers : WF_vars(ReserveRead(reader)) /\ WF_vars(FinishRead(reader))

\* ------------------------------------------------------------------ C24

\* The queued reads of a page.
reads_of(read_queue, physical_page) ==
    {i \in DOMAIN read_queue : read_queue[i].physical_page = physical_page}

\* C24: there is never more than one queued read of a page: every request
\* that misses the cache while a read of its page is queued or under way is
\* attached to that read and to no other. Every read queued for a page is read
\* from storage once by one reader, unless it is marked invalid before a
\* reader takes it. A request is handed to the restarter once, when its read
\* is released, and a restarter that looks at the page finds the bytes of the
\* page.
ReadsCoalesced ==
    /\ \A p \in PhysicalPages :
           /\ Cardinality(reads_of(page_cache.read_queue, p)) <= 1
           /\ page_cache.batches[p]
                  = page_cache.reads_issued[p] + page_cache.dropped[p]
                    + Cardinality({i \in reads_of(page_cache.read_queue, p) :
                                      ~page_cache.read_queue[i].reserved})
    /\ \A r \in ReadRequests :
           page_cache.requests[r].result = UDS_QUEUED =>
               IF page_cache.requests[r].restarted = 0
               THEN /\ reads_of(page_cache.read_queue, page_cache.requests[r].physical_page) # {}
                    /\ \A i \in DOMAIN page_cache.read_queue :
                           attached(page_cache.read_queue[i], r)
                               = IF page_cache.read_queue[i].physical_page
                                        = page_cache.requests[r].physical_page
                                 THEN 1
                                 ELSE 0
               ELSE /\ page_cache.requests[r].restarted = 1
                    /\ \A i \in DOMAIN page_cache.read_queue :
                           attached(page_cache.read_queue[i], r) = 0
                    /\ page_cache.restarter = "retryReadRequestAndVerify"
                           => page_cache.requests[r].observed
                                  = pages(page_cache.requests[r].physical_page)

\* Two requests missed the cache for one page, which was read from storage
\* once, and both were handed to the restarter, which found the page's bytes.
TwoRequestsOneRead ==
    \E r, s \in ReadRequests :
        /\ r # s
        /\ page_cache.requests[r].result = UDS_QUEUED
        /\ page_cache.requests[s].result = UDS_QUEUED
        /\ page_cache.requests[r].physical_page = page_cache.requests[s].physical_page
        /\ page_cache.requests[r].restarted = 1
        /\ page_cache.requests[s].restarted = 1
        /\ page_cache.requests[r].observed = pages(page_cache.requests[r].physical_page)
        /\ page_cache.requests[s].observed = pages(page_cache.requests[r].physical_page)
        /\ page_cache.batches[page_cache.requests[r].physical_page] = 1
        /\ page_cache.reads_issued[page_cache.requests[r].physical_page] = 1

\* ------------------------------------------------------------------ C25

\* C25: no two entries of the page cache hold the same physical page.
NoPageCachedTwice ==
    \A i, j \in DOMAIN page_cache.cache :
        i # j => page_cache.cache[i].physical_page # page_cache.cache[j].physical_page

\* The cache is full, and one of its pages was read by a reader twice: it
\* was invalidated or pushed out between the reads.
FullCacheWithPageReadAgain ==
    /\ Len(page_cache.cache) = CacheSlots
    /\ \E i \in DOMAIN page_cache.cache :
           page_cache.reads_issued[page_cache.cache[i].physical_page] >= 2

\* ------------------------------------------------------------------ C26

\* What enqueue_read answers to a request in this step, if it answers one.
answered(request) ==
    page_cache'.requests[request].result # page_cache.requests[request].result

\* C26: while the STOP flag is set and the cache is empty, enqueue_read of a
\* page with no queued read returns UDS_QUEUED as long as fewer than
\* VOLUME_CACHE_MAX_QUEUED_READS - 1 reads are queued, and otherwise returns
\* another result and leaves the queue as it was; and once the flag is
\* cleared every request that was queued is in the end handed to the
\* restarter.
FullQueueRefusesThenDrains ==
    /\ [][\A r \in ReadRequests :
              ( /\ page_cache.stop
                /\ page_cache.cache = <<>>
                /\ answered(r)
                /\ reads_of(page_cache.read_queue, page_cache'.requests[r].physical_page) = {} )
              => IF Len(page_cache.read_queue) < VOLUME_CACHE_MAX_QUEUED_READS - 1
                 THEN /\ page_cache'.requests[r].result = UDS_QUEUED
                      /\ Len(page_cache'.read_queue) = Len(page_cache.read_queue) + 1
                 ELSE /\ page_cache'.requests[r].result # UDS_QUEUED
                      /\ page_cache'.read_queue = page_cache.read_queue]_vars
    /\ \A r \in ReadRequests :
           (page_cache.requests[r].result = UDS_QUEUED)
               ~> (page_cache.requests[r].restarted = 1)

\* The STOP flag was set; a request was refused because the queue was full,
\* and after the flag was cleared every other request, each for a page of its
\* own, was handed to the restarter.
RefusedOneDrainedOthers ==
    /\ page_cache.stops = 1
    /\ ~page_cache.stop
    /\ page_cache.read_queue = <<>>
    /\ \E r \in ReadRequests :
           /\ page_cache.requests[r].result = NOT_QUEUED
           /\ \A s \in ReadRequests \ {r} :
                  /\ page_cache.requests[s].result = UDS_QUEUED
                  /\ page_cache.requests[s].restarted = 1
                  /\ page_cache.batches[page_cache.requests[s].physical_page] = 1

\* ------------------------------------------------------------------ C27

\* The queued read of a page has left the queue in this step.
released(physical_page) ==
    /\ reads_of(page_cache.read_queue, physical_page) # {}
    /\ reads_of(page_cache'.read_queue, physical_page) = {}

\* C27: while the STOP flag is set every read that no reader has taken stays
\* in the queue, not taken, with the requests attached to it; a queued
\* request is attached to a read until it is handed to the restarter, which
\* happens once and in the end happens also when the read was marked invalid;
\* and when a read marked invalid leaves the queue the cache stays as it is
\* (with the restarter that does not read the page itself).
InvalidatedReadsDrained ==
    /\ [][/\ page_cache.stop =>
                 \A i \in DOMAIN page_cache.read_queue :
                     ~page_cache.read_queue[i].reserved =>
                         \E j \in DOMAIN page_cache'.read_queue :
                             /\ page_cache'.read_queue[j].physical_page
                                    = page_cache.read_queue[i].physical_page
                             /\ ~page_cache'.read_queue[j].reserved
                             /\ SubSeq(page_cache'.read_queue[j].requests, 1,
                                       Len(page_cache.read_queue[i].requests))
                                    = page_cache.read_queue[i].requests
          /\ \A i \in DOMAIN page_cache.read_queue :
                 ( /\ page_cache.read_queue[i].invalid
                   /\ released(page_cache.read_queue[i].physical_page)
                   /\ page_cache.restarter = "retryReadRequest" )
                 => page_cache'.cache = page_cache.cache]_vars
    /\ [](\A r \in ReadRequests :
              page_cache.requests[r].result = UDS_QUEUED =>
                  /\ page_cache.requests[r].restarted <= 1
                  /\ page_cache.requests[r].restarted = 0 =>
                         \E i \in DOMAIN page_cache.read_queue :
                             attached(page_cache.read_queue[i], r) = 1)
    /\ \A r \in ReadRequests :
           ( /\ page_cache.requests[r].result = UDS_QUEUED
             /\ page_cache.requests[r].restarted = 0
             /\ \E i \in DOMAIN page_cache.read_queue :
                    /\ page_cache.read_queue[i].invalid
                    /\ attached(page_cache.read_queue[i], r) = 1 )
               ~> (page_cache.requests[r].restarted = 1)

\* Reads were queued under the STOP flag and marked invalid, no reader read a
\* page, and after the flag was cleared every queued request was handed to the
\* restarter; a page of an invalidated read, read by get_volume_page_locked,
\* is in the cache.
DrainedAroundCachedPage ==
    /\ page_cache.restarter = "retryReadRequest"
    /\ page_cache.stops = 1
    /\ ~page_cache.stop
    /\ page_cache.read_queue = <<>>
    /\ \A p \in PhysicalPages : page_cache.reads_issued[p] = 0
    /\ Cardinality({p \in PhysicalPages : page_cache.dropped[p] = 1})
           = VOLUME_CACHE_MAX_QUEUED_READS - 1
    /\ \E i \in DOMAIN page_cache.cache :
           page_cache.dropped[page_cache.cache[i].physical_page] = 1
    /\ \A r \in ReadRequests :
           page_cache.requests[r].result = UDS_QUEUED
               => page_cache.requests[r].restarted = 1

\* ---------------------------------------------------------------------------
\* The life of an index on its storage: make_index, save_index, free_index.
\*
\* One zone. `layout` is what the storage holds (the volume's chapters, the
\* saved index state and the saved open chapter); `uds_index` is the struct
\* uds_index in memory, absent between free_index and the next make_index.
\* load_index_state, save_index_state, discard_open_chapter and
\* make_uds_index_layout belong to the index layout, whose code is not in the
\* sources: they are modelled from the specification. The field `history`
\* records what happened and is read by properties only.
\* ---------------------------------------------------------------------------

UDS_CREATE == "UDS_CREATE"
UDS_LOAD == "UDS_LOAD"
UDS_NO_REBUILD == "UDS_NO_REBUILD"
OpenTypes == {UDS_CREATE, UDS_LOAD, UDS_NO_REBUILD}
UDS_INDEX_NOT_SAVED_CLEANLY == "UDS_INDEX_NOT_SAVED_CLEANLY"
UDS_NO_INDEX == "UDS_NO_INDEX"
NO_LAST_SAVE == NoChapter
StorageResults == {UDS_SUCCESS, EIO}
ENOMEM == "ENOMEM"
\* What load_index_state meets: nothing, a failing read, or a failing allocation.
LoadFaults == {UDS_SUCCESS, EIO, ENOMEM}

\* Bounds of the sessions explored.
MaxMakes == 3
MaxSessionRequests == 2
SessionCapacity == 2
SessionChaptersPerVolume == 2

session_geometry == [chapters_per_volume |-> SessionChaptersPerVolume]
PhysicalChapters == 0..(SessionChaptersPerVolume - 1)

\* Storage that has never held an index.
NoStorage ==
    [formatted |-> FALSE, volume |-> [p \in PhysicalChapters |-> <<>>], saved |-> <<>>,
     open_chapter_saved |-> FALSE, makes |-> 0, freed |-> <<>>]

\* make_uds_index_layout: a new layout replaces whatever the storage held; an
\* existing one is opened as it is, and fails when there is none.
make_uds_index_layout(l, new) ==
    IF new
    THEN [l EXCEPT !.formatted = TRUE, !.volume = [p \in PhysicalChapters |-> <<>>],
                   !.saved = <<>>, !.open_chapter_saved = FALSE]
    ELSE l

\* What make_index leaves behind when it fails: free_index(index) and the error.
no_index(open_type, result, load_failed, rebuilds) ==
    [exists |-> FALSE, open_type |-> open_type, result |-> result,
     history |-> [load_failed |-> load_failed, rebuilds |-> rebuilds]]

\* The index of make_index before load_index: everything allocated zeroed, an
\* empty volume index and an empty open chapter.
new_index(open_type) ==
    [exists |-> TRUE, open_type |-> open_type, result |-> UDS_SUCCESS,
     newest_virtual_chapter |-> 0, oldest_virtual_chapter |-> 0,
     last_save |-> 0, prev_save |-> 0,
     has_saved_open_chapter |-> FALSE, need_to_save |-> FALSE,
     volume_index |-> [name \in Names |-> NoChapter],
     open_chapter |-> {},
     zone_newest |-> 0,
     zones_to_write |-> 0, writing |-> {}, writer_pc |-> "wait",
     history |-> [made |-> "created", load_fault |-> UDS_SUCCESS, load_failed |-> FALSE,
                  rebuilds |-> 0, requests |-> 0, untouched |-> TRUE,
                  save_succeeded |-> FALSE, clean |-> FALSE, committed |-> FALSE,
                  discard_failed |-> FALSE]]

\* load_index_state: the saved state can be read when a save completed and its
\* open chapter has not been discarded since, unless a read or an allocation
\* fails, whose error it returns.
load_index_state(l, fault) ==
    IF fault # UDS_SUCCESS THEN fault
    ELSE IF l.saved # <<>> /\ l.open_chapter_saved THEN UDS_SUCCESS ELSE EIO

\* load_index: any failure of load_index_state is UDS_INDEX_NOT_SAVED_CLEANLY.
load_index(l, fault) ==
    IF load_index_state(l, fault) # UDS_SUCCESS THEN UDS_INDEX_NOT_SAVED_CLEANLY
    ELSE UDS_SUCCESS

\* The index as load_index_state fills it from the saved state.
loaded_index(idx, l) ==
    [idx EXCEPT !.newest_virtual_chapter = l.saved[1].newest_virtual_chapter,
                !.oldest_virtual_chapter = l.saved[1].oldest_virtual_chapter,
                !.last_save = l.saved[1].last_save,
                !.volume_index = l.saved[1].volume_index,
                !.open_chapter = l.saved[1].open_chapter,
                !.history.made = "loaded"]

\* find_volume_chapter_boundaries: the virtual chapters the volume holds.
volume_chapters(l) == {l.volume[p][1].virtual : p \in {q \in PhysicalChapters : l.volume[q] # <<>>}}

lowest_chapter(l) == CHOOSE c \in volume_chapters(l) : \A d \in volume_chapters(l) : c <= d

highest_chapter(l) == CHOOSE c \in volume_chapters(l) : \A d \in volume_chapters(l) : d <= c

\* The chapters of the volume that hold a name, among those from `oldest` on.
chapters_with(l, name, oldest) ==
    {l.volume[p][1].virtual :
        p \in {q \in PhysicalChapters : /\ l.volume[q] # <<>>
                                        /\ l.volume[q][1].virtual >= oldest
                                        /\ name \in l.volume[q][1].names}}

\* replay_volume: every record of every chapter from the oldest to the newest
\* is put into the volume index, a later chapter replacing an earlier one.
replay_volume(l, oldest) ==
    [name \in Names |->
        IF chapters_with(l, name, oldest) = {} THEN NoChapter
        ELSE CHOOSE c \in chapters_with(l, name, oldest) :
                 \A d \in chapters_with(l, name, oldest) : d <= c]

\* rebuild_index.
rebuild_index(idx, l) ==
    IF volume_chapters(l) = {}
    THEN [idx EXCEPT !.newest_virtual_chapter = 0, !.oldest_virtual_chapter = 0,
                     !.history.made = "rebuilt"]
    ELSE [idx EXCEPT !.newest_virtual_chapter = highest_chapter(l) + 1,
                     !.oldest_virtual_chapter =
                         IF highest_chapter(l) + 1 = lowest_chapter(l) + SessionChaptersPerVolume
                         THEN lowest_chapter(l) + 1 ELSE lowest_chapter(l),
                     !.volume_index =
                         replay_volume(l, IF highest_chapter(l) + 1
                                               = lowest_chapter(l) + SessionChaptersPerVolume
                                          THEN lowest_chapter(l) + 1 ELSE lowest_chapter(l)),
                     !.history.made = "rebuilt"]

\* make_index rebuilds after a failed load only for UDS_LOAD.
rebuild_any_open_type(open_type) == open_type # UDS_CREATE

rebuild_after_failed_load(open_type) == open_type = UDS_LOAD

\* The end of make_index: the zone takes the index's chapters, and the two
\* save flags follow from whether the index was loaded.
finish_make_index(idx, loaded, load_fault, rebuilds) ==
    [idx EXCEPT !.zone_newest = idx.newest_virtual_chapter,
                !.has_saved_open_chapter = loaded,
                !.need_to_save = ~loaded,
                !.history.load_fault = load_fault,
                !.history.load_failed = ~loaded /\ idx.open_type # UDS_CREATE,
                !.history.rebuilds = rebuilds,
                !.history.clean = loaded]

\* make_index(config, open_type): the index, or what is left when it fails.
make_index(l, open_type, load_fault, rebuild_result) ==
    IF open_type # UDS_CREATE /\ ~l.formatted
    THEN no_index(open_type, UDS_NO_INDEX, FALSE, 0)
    ELSE IF open_type = UDS_CREATE
    THEN finish_make_index(new_index(open_type), FALSE, UDS_SUCCESS, 0)
    ELSE IF load_index(l, load_fault) = UDS_SUCCESS
    THEN finish_make_index(loaded_index(new_index(open_type), l), TRUE, load_fault, 0)
    ELSE IF load_index(l, load_fault) = ENOMEM
    THEN no_index(open_type, ENOMEM, TRUE, 0)
    ELSE IF ~rebuild_after_failed_load(open_type)
    THEN no_index(open_type, UDS_INDEX_NOT_SAVED_CLEANLY, TRUE, 0)
    ELSE IF rebuild_result # UDS_SUCCESS
    THEN no_index(open_type, rebuild_result, TRUE, 1)
    ELSE finish_make_index(rebuild_index(new_index(open_type), l), FALSE, load_fault, 1)

\* A search of the index for a name: in the open chapter, in the chapter the
\* writer holds, or in the chapter of the volume that the volume index names.
search_index(idx, l, name) ==
    IF name \in idx.open_chapter THEN UDS_LOCATION_IN_OPEN_CHAPTER
    ELSE IF name \in idx.writing THEN UDS_LOCATION_IN_DENSE
    ELSE IF /\ idx.volume_index[name] # NoChapter
            /\ idx.volume_index[name] >= idx.oldest_virtual_chapter
            /\ idx.volume_index[name] < idx.newest_virtual_chapter
            /\ idx.volume_index[name] \in chapters_with(l, name, idx.oldest_virtual_chapter)
    THEN UDS_LOCATION_IN_DENSE
    ELSE UDS_LOCATION_UNAVAILABLE

\* What the index answers to a query of each name, with its chapter range.
answers(idx, l) ==
    [found |-> [name \in Names |-> search_index(idx, l, name)],
     newest_virtual_chapter |-> idx.newest_virtual_chapter,
     oldest_virtual_chapter |-> idx.oldest_virtual_chapter]

\* The struct uds_index without the history the model keeps beside it.
index_fields(idx) == [idx EXCEPT !.history = <<>>]

InitSession ==
    /\ NoIndex /\ NoPage /\ NoSave /\ NoCache
    /\ delta_zone = <<>> /\ delta_entry = <<>> /\ delta_op = <<>>
    /\ layout = NoStorage
    /\ uds_index = no_index(UDS_CREATE, UDS_SUCCESS, FALSE, 0)

\* make_index(config, open_type, ...), with the storage failing or not in
\* load_index_state and in rebuild_index.
MakeIndexCall(open_type, load_fault, rebuild_result) ==
    /\ ~uds_index.exists
    /\ layout.makes < MaxMakes
    /\ uds_index' = make_index(layout, open_type, load_fault, rebuild_result)
    /\ layout' = [make_uds_index_layout(layout, open_type = UDS_CREATE)
                      EXCEPT !.makes = layout.makes + 1]
    /\ UNCHANGED <<index_vars, delta_vars, page_vars, save_vars, cache_vars>>

\* execute_zone_request for a data request: need_to_save is set; a post of a
\* name that is not in the open chapter puts it there, and a full open chapter
\* is handed to the chapter writer once the previous one is written.
execute_session_request(idx, type, name) ==
    IF type # UDS_POST \/ name \in idx.open_chapter
    THEN [idx EXCEPT !.need_to_save = TRUE]
    ELSE IF Cardinality(idx.open_chapter \cup {name}) < SessionCapacity
    THEN [idx EXCEPT !.need_to_save = TRUE,
                     !.volume_index[name] = idx.zone_newest,
                     !.open_chapter = idx.open_chapter \cup {name}]
    ELSE [idx EXCEPT !.need_to_save = TRUE,
                     !.volume_index[name] = idx.zone_newest,
                     !.open_chapter = {},
                     !.writing = idx.open_chapter \cup {name},
                     !.zones_to_write = 1,
                     !.zone_newest = idx.zone_newest + 1]

SessionRequest(type, name) ==
    /\ uds_index.exists
    /\ uds_index.history.requests < MaxSessionRequests
    /\ \/ uds_index.zones_to_write = 0
       \/ type # UDS_POST
       \/ name \in uds_index.open_chapter
       \/ Cardinality(uds_index.open_chapter \cup {name}) < SessionCapacity
    /\ uds_index' = [execute_session_request(uds_index, type, name)
                         EXCEPT !.history.requests = uds_index.history.requests + 1,
                                !.history.untouched = FALSE,
                                !.history.save_succeeded = FALSE]
    /\ UNCHANGED <<index_vars, delta_vars, page_vars, save_vars, cache_vars, layout>>

\* discard_open_chapter: the saved open chapter is removed unless the storage
\* fails.
discard_open_chapter(l, result) ==
    IF result = UDS_SUCCESS THEN [l EXCEPT !.open_chapter_saved = FALSE] ELSE l

\* close_chapters, from the chapter it was handed to close_open_chapter: the
\* saved open chapter is discarded the first time, whatever the result.
DiscardSavedOpenChapter(result) ==
    /\ uds_index.exists
    /\ uds_index.zones_to_write = 1
    /\ uds_index.writer_pc = "wait"
    /\ uds_index.has_saved_open_chapter \/ result = UDS_SUCCESS
    /\ uds_index' = [uds_index EXCEPT !.has_saved_open_chapter = FALSE,
                                      !.writer_pc = "write",
                                      !.history.discard_failed =
                                          uds_index.history.discard_failed
                                              \/ result # UDS_SUCCESS]
    /\ layout' = IF uds_index.has_saved_open_chapter
                 THEN discard_open_chapter(layout, result) ELSE layout
    /\ UNCHANGED <<index_vars, delta_vars, page_vars, save_vars, cache_vars>>

\* close_chapters, close_open_chapter and after: the chapter is written to the
\* volume and the index moves to the next chapter.
CommitChapter ==
    /\ uds_index.exists
    /\ uds_index.writer_pc = "write"
    /\ layout' = [layout EXCEPT
           !.volume[map_to_physical_chapter(session_geometry,
                                            uds_index.newest_virtual_chapter)] =
               <<[virtual |-> uds_index.newest_virtual_chapter,
                  names |-> uds_index.writing]>>]
    /\ uds_index' = [uds_index EXCEPT
           !.newest_virtual_chapter = uds_index.newest_virtual_chapter + 1,
           !.oldest_virtual_chapter =
               uds_index.oldest_virtual_chapter
                   + chapters_to_expire(session_geometry,
                                        uds_index.newest_virtual_chapter + 1),
           !.zones_to_write = 0,
           !.writing = {},
           !.writer_pc = "wait",
           !.history.committed = TRUE]
    /\ UNCHANGED <<index_vars, delta_vars, page_vars, save_vars, cache_vars>>

\* save_index_state: what a completed save leaves on the storage.
saved_index_state(idx) ==
    <<[newest_virtual_chapter |-> idx.newest_virtual_chapter,
       oldest_virtual_chapter |-> idx.oldest_virtual_chapter,
       last_save |-> idx.last_save,
       volume_index |-> idx.volume_index,
       open_chapter |-> idx.open_chapter]>>

\* save_index up to save_index_state: prev_save and last_save.
begin_save(idx) ==
    [idx EXCEPT !.prev_save = idx.last_save,
                !.last_save = IF idx.newest_virtual_chapter = 0 THEN NO_LAST_SAVE
                              ELSE idx.newest_virtual_chapter - 1]

\* save_index after save_index_state.
finish_save_forgetful(idx, result) ==
    IF result # UDS_SUCCESS THEN idx
    ELSE [idx EXCEPT !.has_saved_open_chapter = TRUE, !.need_to_save = FALSE]

finish_save(idx, result) ==
    IF result # UDS_SUCCESS THEN [idx EXCEPT !.last_save = idx.prev_save]
    ELSE [idx EXCEPT !.has_saved_open_chapter = TRUE, !.need_to_save = FALSE]

\* save_index, called with all requests drained; it waits for the chapter
\* writer. A save that fails leaves the saved state as it was or unreadable.
SaveIndexCall(result, unreadable) ==
    /\ uds_index.exists
    /\ uds_index.zones_to_write = 0
    /\ IF ~uds_index.need_to_save
       THEN /\ result = UDS_SUCCESS /\ ~unreadable
            /\ uds_index' = [uds_index EXCEPT !.result = UDS_SUCCESS,
                                              !.history.untouched = FALSE,
                                              !.history.save_succeeded = TRUE]
            /\ layout' = layout
       ELSE /\ result = UDS_SUCCESS => ~unreadable
            /\ uds_index' = [finish_save(begin_save(uds_index), result)
                                 EXCEPT !.result = result,
                                        !.history.untouched = FALSE,
                                        !.history.save_succeeded = (result = UDS_SUCCESS),
                                        !.history.clean =
                                            uds_index.history.clean \/ result = UDS_SUCCESS,
                                        !.history.committed =
                                            uds_index.history.committed /\ result # UDS_SUCCESS,
                                        !.history.discard_failed =
                                            uds_index.history.discard_failed
                                                /\ result # UDS_SUCCESS]
            /\ layout' = IF result = UDS_SUCCESS
                         THEN [layout EXCEPT !.saved = saved_index_state(begin_save(uds_index)),
                                             !.open_chapter_saved = TRUE]
                         ELSE IF unreadable
                         THEN [layout EXCEPT !.saved = <<>>, !.open_chapter_saved = FALSE]
                         ELSE layout
    /\ UNCHANGED <<index_vars, delta_vars, page_vars, save_vars, cache_vars>>

\* free_index: the chapter writer finishes what it holds, then the index is
\* gone. The storage remembers what the index answered when it was freed.
FreeIndex ==
    /\ uds_index.exists
    /\ uds_index.zones_to_write = 0
    /\ uds_index' = no_index(uds_index.open_type, UDS_SUCCESS, FALSE, 0)
    /\ layout' = [layout EXCEPT !.freed = <<[answers |-> answers(uds_index, layout),
                                             after_save |-> uds_index.history.save_succeeded]>>]
    /\ UNCHANGED <<index_vars, delta_vars, page_vars, save_vars, cache_vars>>

NextSession ==
    \/ \E open_type \in OpenTypes, load_fault \in LoadFaults, rebuild_result \in StorageResults :
           MakeIndexCall(open_type, load_fault, rebuild_result)
    \/ \E type \in {UDS_POST, UDS_QUERY_NO_UPDATE}, name \in Names : SessionRequest(type, name)
    \/ \E result \in StorageResults : DiscardSavedOpenChapter(result)
    \/ CommitChapter
    \/ \E result \in StorageResults, unreadable \in BOOLEAN : SaveIndexCall(result, unreadable)
    \/ FreeIndex

SpecSession == InitSession /\ [][NextSession]_vars

NoRebuildFailed ==
    /\ ~uds_index.exists
    /\ uds_index.open_type = UDS_NO_REBUILD
    /\ uds_index.result = UDS_INDEX_NOT_SAVED_CLEANLY
    /\ volume_chapters(layout) # {}

\* C29: in an index that was loaded or saved successfully, once the chapter
\* writer is about to write a chapter, and from then until the next successful
\* save, no saved open chapter is on the storage and a load of the storage
\* fails, so that the next make_index has to recover.
SavedOpenChapterDiscardedBeforeCommit ==
    /\ uds_index.exists
    /\ uds_index.history.clean
    /\ uds_index.history.committed \/ uds_index.writer_pc = "write"
    => /\ ~layout.open_chapter_saved
       /\ load_index(layout, UDS_SUCCESS) = UDS_INDEX_NOT_SAVED_CLEANLY

\* The same, for the indexes whose discard_open_chapter did not fail.
SavedOpenChapterDiscardedUnlessDiscardFails ==
    /\ uds_index.exists
    /\ uds_index.history.clean
    /\ ~uds_index.history.discard_failed
    /\ uds_index.history.committed \/ uds_index.writer_pc = "write"
    => /\ ~layout.open_chapter_saved
       /\ load_index(layout, UDS_SUCCESS) = UDS_INDEX_NOT_SAVED_CLEANLY

\* The flag is cleared in memory before the chapter is written, whatever
\* discard_open_chapter returns.
FlagClearedBeforeCommit ==
    uds_index.exists /\ uds_index.writer_pc = "write"
        => ~uds_index.has_saved_open_chapter

\* A loaded index committed a chapter after a successful discard.
CommittedAfterDiscard ==
    /\ uds_index.exists
    /\ uds_index.history.made = "loaded"
    /\ uds_index.history.committed
    /\ ~uds_index.history.discard_failed
    /\ ~layout.open_chapter_saved
    /\ layout.saved # <<>>

\* A chapter was committed after a discard that failed: the saved open chapter
\* is still on the storage beside a volume that is ahead of the saved state.
CommittedBesideSavedOpenChapter ==
    /\ uds_index.exists
    /\ uds_index.history.clean
    /\ uds_index.history.committed
    /\ layout.open_chapter_saved
    /\ layout.saved[1].newest_virtual_chapter < uds_index.newest_virtual_chapter

\* An index loaded without recovery whose volume holds a chapter the loaded
\* state does not know.
LoadedBehindVolume ==
    /\ uds_index.exists
    /\ uds_index.history.made = "loaded"
    /\ uds_index.history.untouched
    /\ volume_chapters(layout) # {}
    /\ uds_index.newest_virtual_chapter <= highest_chapter(layout)

\* C30: (a) an index made with UDS_LOAD, the storage not failing, after a
\* free_index that followed a successful save_index is loaded, not rebuilt,
\* and answers every query as the index did when it was freed; (b) save_index
\* on an index with need_to_save clear changes neither the index nor the
\* storage; (c) a save_index that fails leaves last_save as it was and
\* need_to_save set.
SaveThenLoadRestoresIndex ==
    [][/\ \A rebuild_result \in StorageResults :
              /\ MakeIndexCall(UDS_LOAD, UDS_SUCCESS, rebuild_result)
              /\ layout.freed # <<>>
              /\ layout.freed[1].after_save
              => /\ uds_index'.exists
                 /\ uds_index'.result = UDS_SUCCESS
                 /\ uds_index'.history.made = "loaded"
                 /\ uds_index'.history.rebuilds = 0
                 /\ answers(uds_index', layout') = layout.freed[1].answers
       /\ \A result \in StorageResults, unreadable \in BOOLEAN :
              SaveIndexCall(result, unreadable) =>
                  /\ ~uds_index.need_to_save =>
                         /\ index_fields(uds_index') = index_fields(uds_index)
                         /\ layout' = layout
                  /\ result # UDS_SUCCESS =>
                         /\ uds_index'.result = result
                         /\ uds_index'.last_save = uds_index.last_save
                         /\ uds_index'.need_to_save]_vars

\* An index loaded after save_index and free_index of an index that has
\* records in the volume and in its open chapter, and finds them.
LoadedWhatWasSaved ==
    /\ uds_index.exists
    /\ uds_index.history.untouched
    /\ uds_index.open_type = UDS_LOAD
    /\ uds_index.history.made = "loaded"
    /\ layout.freed # <<>>
    /\ layout.freed[1].after_save
    /\ uds_index.newest_virtual_chapter > 0
    /\ \E name \in Names : search_index(uds_index, layout, name) = UDS_LOCATION_IN_OPEN_CHAPTER
    /\ \E name \in Names : search_index(uds_index, layout, name) = UDS_LOCATION_IN_DENSE

\* A save_index that failed after the index's chapter had moved on: last_save
\* is back at its previous value, which is not the chapter before the newest.
SaveFailed ==
    /\ uds_index.exists
    /\ uds_index.result # UDS_SUCCESS
    /\ uds_index.need_to_save
    /\ uds_index.newest_virtual_chapter > 0
    /\ uds_index.last_save # uds_index.newest_virtual_chapter - 1

\* A save_index that had nothing to do.
SaveSkipped ==
    /\ uds_index.exists
    /\ uds_index.history.save_succeeded
    /\ uds_index.history.made = "loaded"
    /\ uds_index.has_saved_open_chapter
    /\ uds_index.last_save = layout.saved[1].last_save
    /\ uds_index.history.requests = 0

\* ---------------------------------------------------------------- C39

\* The request zone z is about to execute is a UDS_QUERY_NO_UPDATE.
ExecutesQueryNoUpdate(z) ==
    /\ zone_queues[z] # <<>>
    /\ Head(zone_queues[z]).type = UDS_QUERY_NO_UPDATE

\* The step of zone z completes a UDS_QUERY with its name not found.
CompletesQueryNotFound(z) ==
    /\ zone_queues[z] # <<>>
    /\ Head(zone_queues[z]).type = UDS_QUERY
    /\ callbacks' # callbacks
    /\ last_callback'.id = Head(zone_queues[z]).id
    /\ ~last_callback'.found

\* C39: a step of execute_zone_request on a UDS_QUERY_NO_UPDATE, whether it
\* finds the name or not, and one that completes a UDS_QUERY with the name not
\* found, leaves the volume index, both chapters of every zone and every
\* zone's chapter counters as they were, and the zone does not go on into
\* open_next_chapter (it stays idle and hands nothing to the chapter writer).
QueriesChangeNothing ==
    [][\A z \in Zones :
          /\ \E hit \in BOOLEAN, overflow \in Overflows : ExecuteZoneRequest(z, hit, overflow)
          /\ ExecutesQueryNoUpdate(z) \/ CompletesQueryNotFound(z)
          => /\ volume_index' = volume_index
             /\ chapters' = chapters
             /\ zones' = zones
             /\ zone_pc' = zone_pc
             /\ writer' = writer]_vars

\* A UDS_QUERY_NO_UPDATE has found its name in a chapter that is not the open
\* chapter, where any other search would have moved the record.
QueryNoUpdateFoundInClosedChapter ==
    /\ last_callback.type = UDS_QUERY_NO_UPDATE
    /\ last_callback.found
    /\ last_callback.location # UDS_LOCATION_IN_OPEN_CHAPTER
    /\ volume_index.chapter[last_callback.record_name] = last_callback.virtual_chapter

\* A UDS_QUERY has ended with its name not found.
QueryNotFound ==
    /\ last_callback.type = UDS_QUERY
    /\ ~last_callback.found
    /\ last_callback.status = UDS_SUCCESS

\* ---------------------------------------------------------------- C36

\* C36: when a zone takes from its queue a request that comes back from a
\* failed page read (requeued, status other than UDS_SUCCESS), that step gives
\* the request to the callback once, with the status of the read, found false
\* and location UDS_LOCATION_UNAVAILABLE; the volume index, the chapters, the
\* zones' counters, the sparse cache and the pending reads stay as they were,
\* and the zone is idle with the rest of its queue in front of it.
FailedReadCompletesAtOnce ==
    [][\A z \in Zones :
          /\ \E hit \in BOOLEAN, overflow \in Overflows : ExecuteZoneRequest(z, hit, overflow)
          /\ Head(zone_queues[z]).requeued
          /\ Head(zone_queues[z]).status # UDS_SUCCESS
          => /\ callbacks' = [callbacks EXCEPT ![Head(zone_queues[z]).id] = @ + 1]
             /\ last_callback' = [Head(zone_queues[z]) EXCEPT
                                     !.found = FALSE,
                                     !.location = UDS_LOCATION_UNAVAILABLE]
             /\ volume_index' = volume_index
             /\ chapters' = chapters
             /\ zones' = zones
             /\ sparse_cache' = sparse_cache
             /\ parked' = parked
             /\ zone_pc'[z].pc = "idle"
             /\ zone_queues'[z] = Tail(zone_queues[z])]_vars

\* A request whose page read failed has been completed, and the zone that
\* completed it has the next request of its queue in front of it.
FailedReadCompleted ==
    /\ last_callback.requeued
    /\ last_callback.status = EIO
    /\ last_callback.location = UDS_LOCATION_UNAVAILABLE
    /\ \E z \in {get_volume_index_zone(last_callback.record_name)} :
          /\ zone_pc[z].pc = "idle"
          /\ zone_queues[z] # <<>>
          /\ Head(zone_queues[z]).zone_message = UDS_MESSAGE_NONE

\* ---------------------------------------------------------------- C34

\* The chapter writer has every zone's chapter and has not yet reset
\* zones_to_write: it is about to write the chapter or is writing it.
WriterCommitting == writer.zones_to_write = zone_count

\* C34: in every step taken while the chapter writer has all the zones'
\* chapters (zones_to_write = zone_count), the writer's own commit included,
\* each buffer writer->chapters[z] keeps its content (no reset, no record
\* added or removed), does not become the open chapter of its zone, and the
\* slots writer->chapters[] keep their values.
WritingChaptersUntouched ==
    [][WriterCommitting =>
          /\ writer'.chapters = writer.chapters
          /\ \A z \in Zones :
                /\ chapters'[z][writer.chapters[z]] = chapters[z][writer.chapters[z]]
                /\ zones[z].open # writer.chapters[z]
                /\ zones'[z].open # writer.chapters[z]]_vars

\* The writer is writing the chapter of two zones while one zone has filled
\* its next open chapter and waits in finish_previous_chapter to swap.
ZoneWaitsWhileWriterCommits ==
    /\ zone_count > 1
    /\ WriterCommitting
    /\ writer.pc = "write"
    /\ \E z \in Zones :
          /\ zone_pc[z].pc = "finish_previous_chapter"
          /\ open_chapter(z).size > 0
          /\ chapters[z][writer.chapters[z]].size > 0

\* ---------------------------------------------------------------- C40

\* The entries of a list as next_delta_index_entry steps through them from
\* the entry given, up to and including the one at the end of the list (or the
\* step that fails).
RECURSIVE walk_delta_list(_, _)
walk_delta_list(zone, entry) ==
    With(next_delta_index_entry(zone, entry), LAMBDA next :
         IF next.result # UDS_SUCCESS \/ next.entry.at_end
         THEN {next}
         ELSE {next} \cup walk_delta_list(zone, next.entry))

\* The keys a search is tried with: the caller's keys, a key before them all
\* and a key after them all.
ProbeKeys == Keys \cup {0, 41}

\* A search that decodes the list from its beginning, whatever is saved.
search_from_beginning(zone, list_number, key) ==
    search_delta_list(zone, NewEntry(list_number), key)

\* The search of get_delta_index_entry, which resumes from the saved key and
\* offset when the key is beyond the saved key.
search_resumed(zone, list_number, key) ==
    search_delta_list(zone, start_delta_index_search(zone, list_number, key), key)

\* The saved offset of a list is the offset of an entry that is no collision,
\* or the end of the list, and the saved key is the key before that entry.
saved_offset_is_valid(zone, list_number) ==
    \E step \in walk_delta_list(zone, NewEntry(list_number)) :
        /\ ~step.entry.is_collision
        /\ step.entry.offset = zone.delta_lists[list_number + 1].save_offset
        /\ step.entry.key - step.entry.delta = zone.delta_lists[list_number + 1].save_key

\* get_collision_name: the name of a collision entry, as the set of its one
\* bits (bit 8 * i + j is bit j of byte i).
get_collision_name(zone, entry) ==
    With(get_delta_entry_offset(zone, entry) + entry.entry_bits - COLLISION_BITS,
         LAMBDA offset : {bit \in Field(0, COLLISION_BITS) : offset + bit \in zone.memory})

\* set_collision_name: each byte of the name replaces the eight bits at its
\* place; the other bits of the u16 read and written back keep their values.
set_collision_name(zone, entry, name) ==
    With(get_delta_entry_offset(zone, entry) + entry.entry_bits - COLLISION_BITS,
         LAMBDA offset : (zone.memory \ Field(offset, COLLISION_BITS))
                             \cup {offset + bit : bit \in name})

\* The loop of get_delta_index_entry over the collision entries that follow
\* the entry found: the collision entry with this name, or the entry found.
RECURSIVE search_collisions(_, _, _, _)
search_collisions(zone, found_entry, collision_entry, name) ==
    With(next_delta_index_entry(zone, collision_entry), LAMBDA next :
         IF next.result # UDS_SUCCESS
         THEN [entry |-> found_entry, result |-> next.result]
         ELSE IF next.entry.at_end \/ ~next.entry.is_collision
         THEN [entry |-> found_entry, result |-> UDS_SUCCESS]
         ELSE IF get_collision_name(zone, next.entry) = name
         THEN [entry |-> next.entry, result |-> UDS_SUCCESS]
         ELSE search_collisions(zone, found_entry, next.entry, name))

\* get_delta_index_entry with a name.
get_delta_index_entry_by_name(zone, list_number, key, name) ==
    With(search_delta_list(zone, start_delta_index_search(zone, list_number, key), key),
         LAMBDA found :
    With(remember_delta_index_offset(zone, found.entry), LAMBDA remembered :
         IF found.result # UDS_SUCCESS
         THEN [zone |-> zone, entry |-> found.entry, result |-> found.result]
         ELSE IF remembered.result # UDS_SUCCESS
         THEN [zone |-> zone, entry |-> found.entry, result |-> remembered.result]
         ELSE IF ~found.entry.at_end /\ key = found.entry.key
         THEN With(search_collisions(remembered.zone, found.entry, found.entry, name),
                   LAMBDA searched : [zone |-> remembered.zone, entry |-> searched.entry,
                                      result |-> searched.result])
         ELSE [zone |-> remembered.zone, entry |-> found.entry, result |-> UDS_SUCCESS]))

\* put_delta_index_entry with a name: a collision entry is put after the
\* entry, which has the key.
put_delta_index_collision(zone, entry, key, value, name) ==
    With(IF entry.offset < entry_list(zone, entry).save_offset
         THEN remember_delta_index_offset(zone, entry)
         ELSE [zone |-> zone, result |-> UDS_SUCCESS], LAMBDA remembered :
         IF entry.is_collision
         THEN [zone |-> zone, entry |-> entry, result |-> UDS_DUPLICATE_NAME]
         ELSE IF remembered.result # UDS_SUCCESS
         THEN [zone |-> zone, entry |-> entry, result |-> remembered.result]
         ELSE IF entry.at_end
         THEN [zone |-> remembered.zone, entry |-> entry, result |-> UDS_BAD_STATE]
         ELSE IF key # entry.key
         THEN [zone |-> remembered.zone, entry |-> entry, result |-> UDS_ASSERTION_FAILED]
         ELSE With([set_delta(zone, [entry EXCEPT !.offset = @ + entry.entry_bits], 0) EXCEPT
                       !.is_collision = TRUE, !.entry_bits = @ + COLLISION_BITS],
                   LAMBDA collision :
              With(insert_bits(remembered.zone, collision, collision.entry_bits),
                   LAMBDA made :
                   IF made.result # UDS_SUCCESS
                   THEN made
                   ELSE With([made.zone EXCEPT
                                 !.memory = encode_entry(made.zone, made.entry, value)],
                             LAMBDA encoded :
                             [zone |-> [encoded EXCEPT
                                           !.memory = set_collision_name(encoded, made.entry,
                                                                         name),
                                           !.record_count = @ + 1,
                                           !.collision_count = @ + 1],
                              entry |-> made.entry,
                              result |-> UDS_SUCCESS]))))

\* ------------------------------------ a delta list that is searched again

\* The bytes of memory of a zone whose lists take collision entries.
ResumeZoneBytes == 96
\* The mean deltas of such zones (3 gives incr_keys = 2, min_bits = 2,
\* min_keys = 2).
ResumeMeanDeltas == {3}
\* The number of calls its caller makes.
MaxResumeOps == 7

\* The keys the caller uses, and the names: a name is the set of the one bits
\* of its 32 bytes.
ResumeKeys == {3, 10, 40}
ResumeNames == {{0, 255}, {7, 8}}

InitResume ==
    /\ NoIndex /\ NoRest
    /\ \E mean_delta \in ResumeMeanDeltas :
           delta_zone = initialize_delta_zone(ResumeZoneBytes, ListCount, mean_delta,
                                              PayloadBits)
    /\ delta_entry = NewEntry(0)
    /\ delta_op = [op |-> "init", count |-> 0]

\* The caller searches a list for a key and a name and keeps the entry.
SearchEntry(list_number, key, name) ==
    \E got \in {get_delta_index_entry_by_name(delta_zone, list_number, key, name)} :
        /\ delta_op.count < MaxResumeOps
        /\ delta_zone' = got.zone
        /\ delta_entry' = got.entry
        /\ delta_op' = [op |-> "search", list_number |-> list_number, key |-> key,
                        name |-> name, result |-> got.result, count |-> delta_op.count + 1]
        /\ UNCHANGED <<index_vars, rest_vars>>

\* While the caller keeps the entry of its search, another search of the
\* same list is made for another key; the list itself is not changed, so the
\* entry the caller keeps still describes it.
SearchAgain(key, name) ==
    /\ delta_op.count < MaxResumeOps
    /\ delta_op.op = "search"
    /\ delta_op.result = UDS_SUCCESS
    /\ key # delta_op.key
    /\ \E got \in {get_delta_index_entry_by_name(delta_zone, delta_op.list_number, key,
                                                 name)} :
          /\ delta_zone' = got.zone
          /\ delta_op' = [delta_op EXCEPT !.count = @ + 1]
    /\ UNCHANGED <<delta_entry, index_vars, rest_vars>>

\* The caller puts an entry for the key and name it searched for: a collision
\* entry when the search ended at an entry with the key, a plain one when not.
PutSearched(value) ==
    /\ delta_op.count < MaxResumeOps
    /\ delta_op.op = "search"
    /\ delta_op.result = UDS_SUCCESS
    /\ \E put \in {IF ~delta_entry.at_end /\ delta_entry.key = delta_op.key
                   THEN put_delta_index_collision(delta_zone, delta_entry, delta_op.key,
                                                  value, delta_op.name)
                   ELSE put_delta_index_entry(delta_zone, delta_entry, delta_op.key,
                                              value)} :
          /\ delta_zone' = put.zone
          /\ delta_entry' = put.entry
          /\ delta_op' = [delta_op EXCEPT !.op = "put", !.result = put.result,
                                          !.count = @ + 1]
    /\ UNCHANGED <<index_vars, rest_vars>>

\* The caller removes the entry its search ended at, which has the key.
RemoveSearched ==
    /\ delta_op.count < MaxResumeOps
    /\ delta_op.op = "search"
    /\ delta_op.result = UDS_SUCCESS
    /\ ~delta_entry.at_end
    /\ delta_entry.key = delta_op.key
    /\ \E removed \in {remove_delta_index_entry(delta_zone, delta_entry)} :
          /\ delta_zone' = removed.zone
          /\ delta_entry' = removed.entry
          /\ delta_op' = [delta_op EXCEPT !.op = "remove", !.result = removed.result,
                                          !.count = @ + 1]
    /\ UNCHANGED <<index_vars, rest_vars>>

NextResume ==
    \/ \E list_number \in 0..(ListCount - 1), key \in ResumeKeys, name \in ResumeNames :
           SearchEntry(list_number, key, name)
    \/ \E key \in ResumeKeys, name \in ResumeNames : SearchAgain(key, name)
    \/ \E value \in Values : PutSearched(value)
    \/ RemoveSearched

SpecResume == InitResume /\ [][NextResume]_vars

\* What a search tells its caller: the result and, of the entry it ended at,
\* the key, the offset, the delta, whether it is a collision or the end of the
\* list and, of an entry before the end, the size and the value.
search_answer(zone, found) ==
    [result |-> found.result,
     key |-> found.entry.key,
     offset |-> found.entry.offset,
     delta |-> found.entry.delta,
     is_collision |-> found.entry.is_collision,
     at_end |-> found.entry.at_end,
     entry_bits |-> IF found.entry.at_end THEN 0 ELSE found.entry.entry_bits,
     value |-> IF found.entry.at_end \/ found.result # UDS_SUCCESS THEN 0
               ELSE get_delta_entry_value(zone, found.entry)]

\* C40: whatever searches, insertions and removals a mutable delta list has
\* seen, a search for any key that starts where start_delta_index_search puts
\* it (at the saved key and offset when the key is beyond the saved key) ends
\* at the same entry, with the same key, value, offset and collision flag, as
\* a search that decodes the list from its first entry; and the saved offset
\* is the offset of an entry that is no collision, or the end of the list,
\* with the saved key the key before that entry.
SearchResumesFromSavedOffset ==
    \A list_number \in 0..(ListCount - 1) :
        /\ saved_offset_is_valid(delta_zone, list_number)
        /\ \A key \in ProbeKeys :
              search_answer(delta_zone, search_resumed(delta_zone, list_number, key))
                  = search_answer(delta_zone,
                                  search_from_beginning(delta_zone, list_number, key))

\* A list holds a collision entry and an entry after it, and its saved offset
\* is that of the entry after the collision: a search for a key beyond the
\* saved key skips the collision entry.
SavedOffsetPastCollision ==
    \E list_number \in 0..(ListCount - 1) :
        \E step \in walk_delta_list(delta_zone, NewEntry(list_number)) :
            /\ step.entry.is_collision
            /\ delta_zone.delta_lists[list_number + 1].save_offset
                   = step.entry.offset + step.entry.entry_bits
            /\ delta_zone.delta_lists[list_number + 1].save_offset
                   < delta_zone.delta_lists[list_number + 1].size

\* remove_delta_index_entry has removed an entry before the saved offset,
\* which another search had moved on, and has reset the saved key and offset.
SavedOffsetResetByRemoval ==
    /\ delta_op.op = "remove"
    /\ delta_op.result = UDS_SUCCESS
    /\ delta_entry.offset > 0
    /\ delta_zone.delta_lists[delta_op.list_number + 1].save_offset = 0

\* put_delta_index_entry has put an entry before the saved offset, which
\* another search had moved on, and has saved the offset of the new entry.
SavedOffsetMovedByPut ==
    /\ delta_op.op = "put"
    /\ delta_op.result = UDS_SUCCESS
    /\ ~delta_entry.is_collision
    /\ delta_zone.delta_lists[delta_op.list_number + 1].save_offset = delta_entry.offset
    /\ delta_zone.delta_lists[delta_op.list_number + 1].size
           > delta_entry.offset + delta_entry.entry_bits
    /\ delta_entry.offset > 0

\* ---------------------------------------------------------------------------
\* A load that runs out of memory. load_index turns every failure of
\* load_index_state into UDS_INDEX_NOT_SAVED_CLEANLY, so the -ENOMEM case of
\* make_index's switch never sees -ENOMEM.
\* ---------------------------------------------------------------------------

\* C37: when load_index_state fails because memory is exhausted, make_index
\* attempts no rebuild, whatever the open type, frees the index and fails.
NoRebuildAfterOutOfMemory ==
    [][\A open_type \in {UDS_LOAD, UDS_NO_REBUILD}, rebuild_result \in StorageResults :
           MakeIndexCall(open_type, ENOMEM, rebuild_result) /\ layout.formatted =>
               /\ ~uds_index'.exists
               /\ uds_index'.result # UDS_SUCCESS
               /\ uds_index'.history.rebuilds = 0]_vars

\* An index opened with UDS_LOAD that make_index rebuilt after its load ran
\* out of memory.
RebuiltAfterOutOfMemory ==
    /\ uds_index.exists
    /\ uds_index.open_type = UDS_LOAD
    /\ uds_index.history.load_fault = ENOMEM
    /\ uds_index.history.load_failed
    /\ uds_index.history.rebuilds = 1
    /\ uds_index.history.untouched

\* What the code does instead: an out-of-memory load is treated as any other
\* failed load.
OutOfMemoryLoadIsAnyFailedLoad ==
    [][\A open_type \in OpenTypes, rebuild_result \in StorageResults :
           MakeIndexCall(open_type, ENOMEM, rebuild_result) =>
               index_fields(uds_index')
                   = index_fields(make_index(layout, open_type, EIO, rebuild_result))]_vars

\* ---------------------------------------------------------------------------
\* The rebuild and its suspension: replay_volume, replay_chapter and
\* check_for_suspend on one side, the thread that suspends, resumes and
\* destroys the index session on the other. The session's code is not in the
\* sources and is modelled from the specification. Here `uds_index` is the
\* index being rebuilt: its load context, the chapters to replay, the position
\* of the rebuilding thread and the chapters it has replayed.
\* ---------------------------------------------------------------------------

INDEX_OPENING == "INDEX_OPENING"
INDEX_READY == "INDEX_READY"
INDEX_SUSPENDING == "INDEX_SUSPENDING"
INDEX_SUSPENDED == "INDEX_SUSPENDED"
INDEX_FREEING == "INDEX_FREEING"
NO_LOAD_CONTEXT == "NULL"
EBUSY == "EBUSY"

\* Bounds of the rebuilds explored.
MaxReplayChapters == 3
MaxFirstChapter == 1

\* check_for_suspend suspends at every status but INDEX_READY.
suspend_at_any_status(status) == status # NO_LOAD_CONTEXT /\ status # INDEX_READY

\* check_for_suspend: the rebuild suspends only when asked to.
suspend_requested(status) == status = INDEX_SUSPENDING

\* check_for_suspend: the statuses that end the wait.
wait_is_over(status) == status = INDEX_OPENING \/ status = INDEX_FREEING

\* rebuild_index up to the call of replay_volume, in a session that has set
\* INDEX_OPENING, or without a load context.
InitRebuild ==
    /\ NoIndex /\ NoPage /\ NoSave /\ NoCache
    /\ delta_zone = <<>> /\ delta_entry = <<>> /\ delta_op = <<>>
    /\ layout = <<>>
    /\ \E from_virtual \in 0..MaxFirstChapter, count \in 0..MaxReplayChapters,
          status \in {INDEX_OPENING, NO_LOAD_CONTEXT} :
           uds_index = [exists |-> TRUE,
                        load_context |-> [status |-> status],
                        session |-> "running",
                        oldest_virtual_chapter |-> from_virtual,
                        newest_virtual_chapter |-> from_virtual + count,
                        virtual |-> from_virtual,
                        pc |-> "replay_volume",
                        replayed |-> <<>>,
                        result |-> UDS_SUCCESS]

\* replay_volume's loop test, and in replay_chapter the call of
\* check_for_suspend when no suspension is asked for.
CheckForSuspend ==
    /\ uds_index.pc = "replay_volume"
    /\ uds_index' =
           IF uds_index.virtual >= uds_index.newest_virtual_chapter
           THEN [uds_index EXCEPT !.pc = "make_index"]
           ELSE IF suspend_requested(uds_index.load_context.status)
           THEN [uds_index EXCEPT !.load_context.status = INDEX_SUSPENDED,
                                  !.pc = "uds_wait_cond"]
           ELSE [uds_index EXCEPT !.pc = "replay_chapter"]
    /\ UNCHANGED <<index_vars, delta_vars, page_vars, save_vars, cache_vars, layout>>

\* check_for_suspend: the wait for the resume ends.
EndWait ==
    /\ uds_index.pc = "uds_wait_cond"
    /\ wait_is_over(uds_index.load_context.status)
    /\ uds_index' =
           IF uds_index.load_context.status = INDEX_FREEING
           THEN [uds_index EXCEPT !.pc = "failed", !.result = EBUSY, !.exists = FALSE]
           ELSE [uds_index EXCEPT !.pc = "replay_chapter"]
    /\ UNCHANGED <<index_vars, delta_vars, page_vars, save_vars, cache_vars, layout>>

\* replay_chapter after check_for_suspend: the records of the chapter are
\* replayed, unless the storage fails, and replay_volume goes on.
ReplayChapter(result) ==
    /\ uds_index.pc = "replay_chapter"
    /\ uds_index' =
           IF result # UDS_SUCCESS
           THEN [uds_index EXCEPT !.pc = "failed", !.result = result, !.exists = FALSE]
           ELSE [uds_index EXCEPT !.replayed = Append(@, uds_index.virtual),
                                  !.virtual = @ + 1,
                                  !.pc = "replay_volume"]
    /\ UNCHANGED <<index_vars, delta_vars, page_vars, save_vars, cache_vars, layout>>

\* make_index after a rebuild that succeeded: the load context is INDEX_READY.
IndexReady ==
    /\ uds_index.pc = "make_index"
    /\ uds_index' =
           [uds_index EXCEPT !.pc = "ready",
                             !.load_context.status =
                                 IF @ = NO_LOAD_CONTEXT THEN @ ELSE INDEX_READY]
    /\ UNCHANGED <<index_vars, delta_vars, page_vars, save_vars, cache_vars, layout>>

\* The session asks the rebuild to suspend and waits for INDEX_SUSPENDED or
\* INDEX_READY.
SuspendRebuild ==
    /\ uds_index.session = "running"
    /\ uds_index.load_context.status \in {INDEX_OPENING, INDEX_READY}
    /\ uds_index' =
           [uds_index EXCEPT !.session = "suspending",
                             !.load_context.status =
                                 IF @ = INDEX_OPENING THEN INDEX_SUSPENDING ELSE @]
    /\ UNCHANGED <<index_vars, delta_vars, page_vars, save_vars, cache_vars, layout>>

\* The session's wait in its suspend call ends.
SessionSuspended ==
    /\ uds_index.session = "suspending"
    /\ uds_index.load_context.status \in {INDEX_SUSPENDED, INDEX_READY}
    /\ uds_index' = [uds_index EXCEPT !.session = "suspended"]
    /\ UNCHANGED <<index_vars, delta_vars, page_vars, save_vars, cache_vars, layout>>

\* The session resumes: a suspended rebuild is told to go on.
ResumeRebuild ==
    /\ uds_index.session = "suspended"
    /\ uds_index' =
           [uds_index EXCEPT !.session = "running",
                             !.load_context.status =
                                 IF @ = INDEX_SUSPENDED THEN INDEX_OPENING ELSE @]
    /\ UNCHANGED <<index_vars, delta_vars, page_vars, save_vars, cache_vars, layout>>

\* The session is destroyed: a suspended rebuild is told to stop.
DestroySession ==
    /\ uds_index.session = "suspended"
    /\ uds_index' =
           [uds_index EXCEPT !.session = "destroyed",
                             !.load_context.status =
                                 IF @ = INDEX_SUSPENDED THEN INDEX_FREEING ELSE @]
    /\ UNCHANGED <<index_vars, delta_vars, page_vars, save_vars, cache_vars, layout>>

NextRebuild ==
    \/ CheckForSuspend
    \/ EndWait
    \/ \E result \in StorageResults : ReplayChapter(result)
    \/ IndexReady
    \/ SuspendRebuild
    \/ SessionSuspended
    \/ ResumeRebuild
    \/ DestroySession

SpecRebuild == InitRebuild /\ [][NextRebuild]_vars

\* C31: the rebuild replays a chapter only after it has checked the load
\* context for that chapter. It sets INDEX_SUSPENDED only in that check and
\* only from INDEX_SUSPENDING, and a check that finds INDEX_SUSPENDING always
\* does so. While it waits it replays nothing; the wait ends only at
\* INDEX_OPENING or INDEX_FREEING: at INDEX_OPENING the chapter it was about
\* to replay is replayed next, at INDEX_FREEING the rebuild fails with -EBUSY.
\* The chapters are replayed in order, each once.
RebuildSuspendProtocol ==
    [][/\ uds_index'.replayed # uds_index.replayed =>
              /\ uds_index.pc = "replay_chapter"
              /\ uds_index'.replayed = Append(uds_index.replayed, uds_index.virtual)
       /\ uds_index'.pc = "replay_chapter" /\ uds_index.pc # "replay_chapter" =>
              /\ uds_index'.virtual = uds_index.virtual
              /\ \/ /\ uds_index.pc = "replay_volume"
                    /\ uds_index.load_context.status # INDEX_SUSPENDING
                 \/ /\ uds_index.pc = "uds_wait_cond"
                    /\ uds_index.load_context.status = INDEX_OPENING
       /\ (/\ uds_index'.load_context.status = INDEX_SUSPENDED
           /\ uds_index.load_context.status # INDEX_SUSPENDED) =>
              /\ uds_index.load_context.status = INDEX_SUSPENDING
              /\ uds_index.pc = "replay_volume"
              /\ uds_index'.pc = "uds_wait_cond"
       /\ (/\ uds_index.pc = "replay_volume" /\ uds_index'.pc # "replay_volume"
           /\ uds_index.virtual < uds_index.newest_virtual_chapter
           /\ uds_index.load_context.status = INDEX_SUSPENDING) =>
              /\ uds_index'.load_context.status = INDEX_SUSPENDED
              /\ uds_index'.pc = "uds_wait_cond"
       /\ uds_index.pc = "uds_wait_cond" =>
              /\ uds_index'.replayed = uds_index.replayed
              /\ uds_index'.virtual = uds_index.virtual
              /\ uds_index'.pc # "uds_wait_cond" =>
                     /\ wait_is_over(uds_index.load_context.status)
                     /\ uds_index'.load_context.status = uds_index.load_context.status
                     /\ uds_index.load_context.status = INDEX_OPENING =>
                            uds_index'.pc = "replay_chapter"
                     /\ uds_index.load_context.status = INDEX_FREEING =>
                            /\ uds_index'.pc = "failed"
                            /\ uds_index'.result = EBUSY
                            /\ uds_index'.replayed = uds_index.replayed
       /\ \A i \in 1..Len(uds_index'.replayed) :
              uds_index'.replayed[i] = uds_index.oldest_virtual_chapter + i - 1
       /\ uds_index'.result = EBUSY => uds_index'.load_context.status = INDEX_FREEING
      ]_vars

\* A rebuild that was suspended before its second chapter, resumed, and has
\* replayed that chapter.
ResumedRebuildReplayed ==
    /\ uds_index.pc = "replay_volume"
    /\ uds_index.session = "running"
    /\ uds_index.load_context.status = INDEX_OPENING
    /\ Len(uds_index.replayed) = 2
    /\ uds_index.virtual < uds_index.newest_virtual_chapter

\* A suspended rebuild that was stopped and reported -EBUSY.
SuspendedRebuildStopped ==
    /\ uds_index.pc = "failed"
    /\ uds_index.result = EBUSY
    /\ uds_index.session = "destroyed"
    /\ Len(uds_index.replayed) = 1

\* A waiting rebuild that was resumed and asked to suspend again before it
\* saw the resume: it still waits, with the status INDEX_SUSPENDING.
SuspendedAgainBeforeResumeSeen ==
    /\ uds_index.pc = "uds_wait_cond"
    /\ uds_index.load_context.status = INDEX_SUSPENDING

\* ---------------------------------------------------------------------------
\* The triage queue of a sparse multi-zone index: triage_request, run by the
\* triage thread on each request of the queue. index.triage_log records, in
\* order, every request the thread has put on a zone queue, with the chapter
\* triage_index_request returned for it; it is read by properties only.
\* ---------------------------------------------------------------------------

\* triage_request forwards every request without a barrier message.
sends_no_barriers(sparse_virtual_chapter) == FALSE

\* triage_request: if (sparse_virtual_chapter != U64_MAX)
sends_barriers(sparse_virtual_chapter) == sparse_virtual_chapter # NoChapter

\* triage_request up to the choice between enqueue_barrier_messages and
\* enqueue_request. zone_number is request->zone_number, which no stage has
\* set yet: what the caller left there.
TriageRequest(zone_number) ==
    /\ UNCHANGED <<delta_vars, rest_vars>>
    /\ index.triage.pc = "idle"
    /\ index.triage_queue # <<>>
    /\ index' = [index EXCEPT
                    !.triage_queue = Tail(@),
                    !.triage =
                        [pc |-> IF sends_barriers(triage_index_request(Head(index.triage_queue),
                                                                       zone_number))
                                THEN "enqueue_barrier_messages" ELSE "enqueue_request",
                         request |-> Head(index.triage_queue),
                         virtual_chapter |-> triage_index_request(Head(index.triage_queue),
                                                                  zone_number),
                         zone |-> 0]]
    /\ UNCHANGED <<zone_count, geometry, zones, chapters, zone_queues, zone_pc, zone_request,
                   writer, volume_index, volume, sparse_cache, parked, workload, submitted,
                   callbacks, last_callback, announcements, forgotten, committed,
                   overflowed, overflows>>

\* enqueue_barrier_messages: launch_zone_message for the next zone.
EnqueueBarrierMessage ==
    /\ UNCHANGED <<delta_vars, rest_vars>>
    /\ index.triage.pc = "enqueue_barrier_messages"
    /\ zone_queues' = enqueue_request(zone_queues,
                                      ZoneMessage(UDS_MESSAGE_SPARSE_CACHE_BARRIER,
                                                  index.triage.virtual_chapter),
                                      index.triage.zone)
    /\ index' = [index EXCEPT
                    !.triage.zone = @ + 1,
                    !.triage.pc = IF index.triage.zone + 1 < zone_count THEN @
                                  ELSE "enqueue_request",
                    !.triage_log =
                        Append(@, [zone |-> index.triage.zone,
                                   request |-> ZoneMessage(UDS_MESSAGE_SPARSE_CACHE_BARRIER,
                                                           index.triage.virtual_chapter),
                                   virtual_chapter |-> index.triage.virtual_chapter])]
    /\ UNCHANGED <<zone_count, geometry, zones, chapters, zone_pc, zone_request,
                   writer, volume_index, volume, sparse_cache, parked, workload, submitted,
                   callbacks, last_callback, announcements, forgotten, committed,
                   overflowed, overflows>>

\* triage_request: enqueue_request(request, STAGE_INDEX).
ForwardRequest ==
    /\ UNCHANGED <<delta_vars, rest_vars>>
    /\ index.triage.pc = "enqueue_request"
    /\ zone_queues' = enqueue_request(zone_queues, index.triage.request,
                                      get_volume_index_zone(index.triage.request.record_name))
    /\ index' = [index EXCEPT
                    !.triage = NoTriage,
                    !.triage_log =
                        Append(@, [zone |-> get_volume_index_zone(
                                                index.triage.request.record_name),
                                   request |-> index.triage.request,
                                   virtual_chapter |-> index.triage.virtual_chapter])]
    /\ UNCHANGED <<zone_count, geometry, zones, chapters, zone_pc, zone_request,
                   writer, volume_index, volume, sparse_cache, parked, workload, submitted,
                   callbacks, last_callback, announcements, forgotten, committed,
                   overflowed, overflows>>

\* A new sparse index of several zones whose caller enqueues at STAGE_TRIAGE.
InitTriage ==
    /\ MakeIndex(TriagedRequests, 0)
    /\ has_triage_queue
    /\ geometry.capacity = 1

NextTriage ==
    \/ Next
    \/ \E zone_number \in Zones : TriageRequest(zone_number)
    \/ EnqueueBarrierMessage
    \/ ForwardRequest

SpecTriage == InitTriage /\ [][NextTriage]_vars

\* The requests the triage thread has put on the queue of zone z, in order.
triaged_to(z) ==
    [i \in 1..Len(SelectSeq(index.triage_log, LAMBDA e : e.zone = z)) |->
        SelectSeq(index.triage_log, LAMBDA e : e.zone = z)[i].request]

\* The requests on the queue of zone z that came from the triage thread.
queued_from_triage(z) ==
    SelectSeq(zone_queues[z],
              LAMBDA r : \/ r.zone_message = UDS_MESSAGE_SPARSE_CACHE_BARRIER
                         \/ r.zone_message = UDS_MESSAGE_NONE /\ ~r.requeued)

\* The data requests the triage thread has forwarded, in order.
forwarded_requests ==
    SelectSeq(index.triage_log, LAMBDA e : e.request.zone_message = UDS_MESSAGE_NONE)

\* C32: in a sparse multi-zone index, a request whose name the volume index
\* maps to a chapter that triage finds sparse is forwarded to the queue of its
\* zone only after one SPARSE_CACHE_BARRIER message for that chapter has been
\* put on the queue of every zone, zone 0 first, and on its own zone's queue
\* the barrier is still ahead of the request or already taken. A request whose
\* name is absent or whose chapter is not sparse is forwarded with no barrier
\* message. Every request taken off the triage queue is forwarded, in the
\* order of submission, and barrier messages are put nowhere else.
TriageSendsBarriersFirst ==
    [][/\ \A zone_number \in Zones :
              TriageRequest(zone_number) =>
                  /\ index'.triage.request = Head(index.triage_queue)
                  /\ zone_queues' = zone_queues
                  /\ index'.triage.virtual_chapter # NoChapter <=>
                         /\ lookup_volume_index_name(volume_index,
                                Head(index.triage_queue).record_name) # NoChapter
                         /\ is_zone_chapter_sparse(zone_number,
                                lookup_volume_index_name(volume_index,
                                    Head(index.triage_queue).record_name))
                  /\ index'.triage.virtual_chapter # NoChapter =>
                         index'.triage.virtual_chapter =
                             lookup_volume_index_name(volume_index,
                                 Head(index.triage_queue).record_name)
       /\ \A p \in 1..Len(index'.triage_log) :
              LET e == index'.triage_log[p]
              IN IF e.request.zone_message = UDS_MESSAGE_NONE
                 THEN /\ e.zone = get_volume_index_zone(e.request.record_name)
                      /\ IF e.virtual_chapter = NoChapter
                         THEN p > 1 =>
                                  index'.triage_log[p - 1].request.zone_message
                                      = UDS_MESSAGE_NONE
                         ELSE /\ p > zone_count
                              /\ \A z \in Zones :
                                     index'.triage_log[p - zone_count + z]
                                         = [zone |-> z,
                                            request |->
                                                ZoneMessage(UDS_MESSAGE_SPARSE_CACHE_BARRIER,
                                                            e.virtual_chapter),
                                            virtual_chapter |-> e.virtual_chapter]
                 ELSE /\ e.request.zone_message = UDS_MESSAGE_SPARSE_CACHE_BARRIER
                      /\ e.virtual_chapter # NoChapter
                      /\ \/ p = Len(index'.triage_log) /\ index'.triage.pc # "idle"
                         \/ /\ p < Len(index'.triage_log)
                            /\ index'.triage_log[p + 1].virtual_chapter = e.virtual_chapter
                            /\ \/ index'.triage_log[p + 1].zone = e.zone + 1
                               \/ index'.triage_log[p + 1].request.zone_message
                                      = UDS_MESSAGE_NONE
       /\ \A z \in Zones :
              /\ Len(queued_from_triage(z))' <= Len(triaged_to(z))'
              /\ \A i \in 1..Len(queued_from_triage(z))' :
                     queued_from_triage(z)'[i] =
                         triaged_to(z)'[Len(triaged_to(z))' - Len(queued_from_triage(z))' + i]
       /\ \A i \in 1..Len(forwarded_requests)' : forwarded_requests'[i].request.id = i
       /\ Len(forwarded_requests)' + Len(index'.triage_queue)
              + (IF index'.triage.pc = "idle" THEN 0 ELSE 1) = submitted'
      ]_vars

\* A request for a name in a sparse chapter was forwarded after its barrier
\* messages, and its zone has taken the barrier message but not yet the
\* request.
BarrierTakenBeforeRequest ==
    /\ index.triage.pc = "idle"
    /\ index.triage_log # <<>>
    /\ index.triage_log[Len(index.triage_log)].virtual_chapter # NoChapter
    /\ \E z \in Zones :
           /\ index.triage_log[Len(index.triage_log)].zone = z
           /\ zone_queues[z] # <<>>
           /\ Head(zone_queues[z]) = index.triage_log[Len(index.triage_log)].request

\* A request for a name the volume index holds in a chapter that is not
\* sparse was forwarded without a barrier message.
ForwardedWithoutBarrier ==
    /\ index.triage_log # <<>>
    /\ index.triage_log[Len(index.triage_log)].virtual_chapter = NoChapter
    /\ index.triage_log[Len(index.triage_log)].request.zone_message = UDS_MESSAGE_NONE
    /\ lookup_volume_index_name(volume_index,
           index.triage_log[Len(index.triage_log)].request.record_name) # NoChapter

\* ---------------------------------------------------------------- C33

\* The step of zone z completes a request of the given type, which was at the
\* head of its queue.
CompletesRequest(z, type) ==
    /\ zone_queues[z] # <<>>
    /\ Head(zone_queues[z]).type = type
    /\ callbacks' # callbacks
    /\ last_callback'.id = Head(zone_queues[z]).id

\* A UDS_DELETE of a name the volume index does not hold completes with
\* UDS_SUCCESS and leaves the volume index, the chapters and the sparse cache
\* as they were. A UDS_DELETE that finds its name leaves no volume index
\* record of it, and takes the name out of the open chapter exactly when it
\* was located there.
DeleteRemovesTheRecord(z) ==
    /\ (/\ zone_queues[z] # <<>>
        /\ Head(zone_queues[z]).type = UDS_DELETE
        /\ ~requeued_with_error(Head(zone_queues[z]))
        /\ ~get_volume_index_record(volume_index,
                                    Head(zone_queues[z]).record_name).is_found) =>
           /\ volume_index' = volume_index
           /\ chapters' = chapters
           /\ sparse_cache' = sparse_cache
           /\ zones' = zones
           /\ last_callback' = [set_request_location(Head(zone_queues[z]),
                                                     UDS_LOCATION_UNAVAILABLE)
                                   EXCEPT !.status = UDS_SUCCESS]
    /\ (CompletesRequest(z, UDS_DELETE) /\ last_callback'.found) =>
           /\ last_callback'.status = UDS_SUCCESS
           /\ lookup_volume_index_name(volume_index, last_callback'.record_name) # NoChapter
           /\ lookup_volume_index_name(volume_index', last_callback'.record_name) = NoChapter
           /\ \A name \in AllNames \ {last_callback'.record_name} :
                  volume_index'.chapter[name] = volume_index.chapter[name]
           /\ IF last_callback'.location = UDS_LOCATION_IN_OPEN_CHAPTER
              THEN /\ last_callback'.record_name \in open_chapter(z).records
                   /\ chapters' = [chapters EXCEPT ![z][zones[z].open].records =
                                                       @ \ {last_callback'.record_name},
                                                   ![z][zones[z].open].deleted =
                                                       @ \cup {last_callback'.record_name},
                                                   ![z][zones[z].open].metadata =
                                                       {r \in @ : r[1] #
                                                           last_callback'.record_name}]
              ELSE chapters' = chapters

\* The request was submitted after a UDS_DELETE had found its name, and no
\* request has stored the name since.
FollowsDelete(request) ==
    [id |-> request.id, name |-> request.record_name] \in workload.following

DeletedNameFoundInSparseCache ==
    /\ last_callback.type = UDS_QUERY_NO_UPDATE
    /\ FollowsDelete(last_callback)
    /\ last_callback.found
    /\ last_callback.location = UDS_LOCATION_IN_SPARSE

\* A UDS_DELETE of a name the volume index does not hold has completed.
DeletedNothing ==
    /\ last_callback.type = UDS_DELETE
    /\ ~last_callback.found
    /\ last_callback.status = UDS_SUCCESS

\* ---------------------------------------------------------------- C38

\* The sparse chapters on the volume, as zone z sees them, that hold a name.
sparse_chapters_with(z, name) ==
    {c \in 0..zones[z].newest_virtual_chapter :
        /\ c >= zones[z].oldest_virtual_chapter
        /\ is_zone_chapter_sparse(z, c)
        /\ volume[map_to_physical_chapter(geometry, c)].virtual_chapter = c
        /\ name \in volume[map_to_physical_chapter(geometry, c)].records}

\* The request at the head of zone z's queue posts again a name of a sparse
\* chapter on the volume that has not been stored since: of a sample the
\* volume index still holds that chapter, of any other name it holds nothing.
PostsNameOfSparseChapter(z) ==
    /\ zone_queues[z] # <<>>
    /\ Head(zone_queues[z]).type = UDS_POST
    /\ ~requeued_with_error(Head(zone_queues[z]))
    /\ sparse_chapters_with(z, Head(zone_queues[z]).record_name) # {}
    /\ IF is_volume_index_sample(Head(zone_queues[z]).record_name)
       THEN lookup_volume_index_name(volume_index, Head(zone_queues[z]).record_name)
                \in sparse_chapters_with(z, Head(zone_queues[z]).record_name)
       ELSE lookup_volume_index_name(volume_index, Head(zone_queues[z]).record_name)
                = NoChapter

\* The request zone z has just searched for, where the step left it: with the
\* callback, or with the zone while it closes the chapter the record filled.
Searched(z) == IF callbacks' # callbacks THEN last_callback' ELSE zone_request'[z]

\* C38: in a single-zone sparse index, a post of a name of a sparse chapter c
\* that is still on the volume and has not been stored since: if the name is a
\* sample, the post first makes c a member of the sparse cache and finds the
\* name, with location SPARSE; if it is no sample, the post finds it, with
\* location SPARSE, when a sparse chapter holding it is in the sparse cache,
\* and reports it not found when none is.
RepostFindsWhatIsCached ==
    [][\A z \in Zones :
          (/\ \E hit \in BOOLEAN, overflow \in Overflows : ExecuteZoneRequest(z, hit, overflow)
           /\ zone_count = 1
           /\ PostsNameOfSparseChapter(z)) =>
              LET request == Head(zone_queues[z])
                  name == request.record_name
                  cached == sparse_chapters_with(z, name) \cap sparse_cache # {}
              IN /\ is_volume_index_sample(name) /\ ~request.requeued =>
                        lookup_volume_index_name(volume_index, name) \in sparse_cache'
                 /\ parked' = parked =>
                        /\ Searched(z).id = request.id
                        /\ is_volume_index_sample(name) \/ cached =>
                               /\ Searched(z).found
                               /\ Searched(z).location = UDS_LOCATION_IN_SPARSE
                        /\ ~is_volume_index_sample(name) /\ ~cached /\ ~request.requeued =>
                               ~Searched(z).found]_vars

\* A post of a sample of a sparse chapter has found it, and the chapter is in
\* the sparse cache.
SampleRepostFound ==
    /\ last_callback.type = UDS_POST
    /\ is_volume_index_sample(last_callback.record_name)
    /\ last_callback.found
    /\ last_callback.location = UDS_LOCATION_IN_SPARSE
    /\ last_callback.virtual_chapter \in sparse_cache

\* A post of a name that is no sample has found it in a cached sparse chapter.
RepostFoundInSparseCache ==
    /\ last_callback.type = UDS_POST
    /\ ~is_volume_index_sample(last_callback.record_name)
    /\ last_callback.found
    /\ last_callback.location = UDS_LOCATION_IN_SPARSE
    /\ last_callback.record_name \notin workload.deleted

\* A post of a name of a sparse chapter that is no sample, made before the
\* chapter was in the sparse cache, has not found it.
RepostBeforeCachedNotFound ==
    /\ last_callback.type = UDS_POST
    /\ ~is_volume_index_sample(last_callback.record_name)
    /\ ~last_callback.found
    /\ workload.queries > 0
    /\ sparse_cache = {}
    /\ \E z \in Zones : sparse_chapters_with(z, last_callback.record_name) # {}

\* ---------------------------------------------------------------- C35

\* The record data held for a name anywhere in the index: in the chapters of
\* the volume and in the open and writing chapters of the zones.
data_held(name) ==
    {r[2] : r \in {s \in UNION ({volume[p].metadata : p \in DOMAIN volume}
                                \cup {chapters[z][b].metadata : z \in Zones, b \in {0, 1}}) :
                      s[1] = name}}

\* C35: when a POST, UPDATE or QUERY changes the open chapter of its zone, the
\* request has been searched for to the end, the volume index then maps its
\* name to the zone's newest chapter, and the open chapter differs from what it
\* was in the record of the name only, whose data is the request's
\* new_metadata if the name was not found or the request is an UPDATE, and the
\* request's old_metadata otherwise; in that last case the name was in an
\* older chapter, not in the open one, and old_metadata is data the index held
\* for the name. A POST or QUERY that finds the name in the open chapter
\* leaves the open chapter and the volume index as they were.
RecordStoredWithItsData ==
    [][\A z \in Zones :
          (/\ \E hit \in BOOLEAN, overflow \in Overflows : ExecuteZoneRequest(z, hit, overflow)
           /\ Head(zone_queues[z]).type \in {UDS_POST, UDS_UPDATE, UDS_QUERY}) =>
              LET request == Head(zone_queues[z])
                  name == request.record_name
                  before == open_chapter(z)
                  after == chapters'[z][zones[z].open]
              IN /\ after # before =>
                     /\ parked' = parked
                     /\ Searched(z).id = request.id
                     /\ volume_index'.chapter[name] = zones[z].newest_virtual_chapter
                     /\ name \in after.records
                     /\ after.records \ {name} = before.records \ {name}
                     /\ after.metadata =
                            set_record_data(before.metadata, name,
                                IF ~Searched(z).found \/ request.type = UDS_UPDATE
                                THEN request.new_metadata
                                ELSE Searched(z).old_metadata)
                     /\ (Searched(z).found /\ request.type # UDS_UPDATE) =>
                            /\ name \notin before.records
                            /\ Searched(z).location # UDS_LOCATION_IN_OPEN_CHAPTER
                            /\ Searched(z).old_metadata \in data_held(name)
                 /\ (/\ request.type \in {UDS_POST, UDS_QUERY}
                     /\ parked' = parked
                     /\ Searched(z).found
                     /\ Searched(z).location = UDS_LOCATION_IN_OPEN_CHAPTER) =>
                        /\ after = before
                        /\ volume_index' = volume_index]_vars

\* A POST has found its name in an older chapter and the open chapter holds the
\* record with the data found there, which is not the request's own.
RecordMovedWithOldData ==
    /\ last_callback.type = UDS_POST
    /\ last_callback.found
    /\ last_callback.location \in {UDS_LOCATION_IN_DENSE, UDS_LOCATION_IN_SPARSE}
    /\ last_callback.old_metadata # last_callback.new_metadata
    /\ \E z \in Zones :
          /\ zone_pc[z].pc = "idle"
          /\ <<last_callback.record_name, last_callback.old_metadata>>
                 \in open_chapter(z).metadata

\* An UPDATE has found its name in the open chapter and the record there now
\* holds the request's new data.
UpdateStoredNewData ==
    /\ last_callback.type = UDS_UPDATE
    /\ last_callback.found
    /\ last_callback.location = UDS_LOCATION_IN_OPEN_CHAPTER
    /\ last_callback.old_metadata # last_callback.new_metadata
    /\ \E z \in Zones :
          /\ zone_pc[z].pc = "idle"
          /\ <<last_callback.record_name, last_callback.new_metadata>>
                 \in open_chapter(z).metadata

\* A POST has found its name in the open chapter, whose record keeps the data
\* it had.
PostFoundInOpenChapterStoredNothing ==
    /\ last_callback.type = UDS_POST
    /\ last_callback.found
    /\ last_callback.location = UDS_LOCATION_IN_OPEN_CHAPTER
    /\ last_callback.old_metadata # last_callback.new_metadata
    /\ \E z \in Zones :
          <<last_callback.record_name, last_callback.old_metadata>>
              \in open_chapter(z).metadata

====
